---- MODULE Spec2Model ----
(***************************************************************************)
(* Event-driven hard-disk simulator (eight-ball): the Simulation of        *)
(* src/src/simulation/simulate.rs with the collision kernel of             *)
(* src/src/dynamics/collide.rs.                                            *)
(*                                                                         *)
(* Numbers.  The program computes in IEEE-754 binary64.  The model keeps   *)
(* the IEEE structure (sign, signed zero, subnormals, infinities, NaN,     *)
(* round-to-nearest-even after every operation) at a reduced width: a      *)
(* finite value is mag / 2^FracBits with at most MantBits significant      *)
(* bits.  A float is the record [kind, neg, mag].                          *)
(***************************************************************************)
EXTENDS Integers, Sequences, FiniteSets, TLC

VARIABLES
    global_time,   \* Simulation.global_time
    balls,         \* Simulation.balls : sequence of Ball, indices 1..Len(balls)
    collisions,    \* Simulation.collisions : the events in the heap
    pc,            \* position inside step_through_collision
    cur,           \* the event returned by next_collision_or_err
    last,          \* history: the latest pop of the current call and its verdict
    result,        \* value returned by the last public operation
    nan_neg,       \* sign bit of the NaN an invalid operation produces in this build
    seg,           \* history: per ball, number of collisions applied to it
    frame,         \* the operation being executed and the iterations it has left
    hist,          \* history: counters and the previous applied event
    pipe           \* the channels and the consumer thread of collision_times

vars == <<global_time, balls, collisions, pc, cur, last, result, nan_neg, seg, frame,
          hist, pipe>>

----------------------------------------------------------------------------
(* Bounds of the model *)

MantBits == 6
FracBits == 4
MaxShift == 8
MaxBalls == 3
MaxInit == 2
MaxSteps == 4
MaxManual == 1
MaxSpin == 2
MaxInject == 1

----------------------------------------------------------------------------
(* f64 at reduced width *)

RECURSIVE Pow2(_)
Pow2(n) == IF n = 0 THEN 1 ELSE 2 * Pow2(n - 1)

Unit == Pow2(FracBits)
MaxFinite == (Pow2(MantBits) - 1) * Pow2(MaxShift)

Fin(neg, mag) == [kind |-> "fin", neg |-> neg, mag |-> mag]
Inf(neg) == [kind |-> "inf", neg |-> neg, mag |-> 0]
DefaultNaN == [kind |-> "nan", neg |-> nan_neg, mag |-> 0]
Zero == Fin(FALSE, 0)
\* a literal n / 2^FracBits
Lit(n) == Fin(n < 0, IF n < 0 THEN -n ELSE n)

IsNaN(a) == a.kind = "nan"

RECURSIVE Shift(_)
Shift(q) == IF q < Pow2(MantBits) THEN 0 ELSE 1 + Shift(q \div 2)

\* n / d rounded to the nearest integer, ties to even
RNE(n, d) ==
    LET q == n \div d
        r == n % d
    IN  IF 2 * r < d THEN q
        ELSE IF 2 * r > d THEN q + 1
        ELSE q + (q % 2)

\* n / d rounded to the nearest representable magnitude; MaxFinite + 1 on overflow
RoundMag(n, d) ==
    LET q == n \div d
        k == Shift(q)
        g == Pow2(k)
        m == RNE(n, d * g) * g
    IN  IF m > MaxFinite THEN MaxFinite + 1 ELSE m

Rounded(neg, n, d) ==
    LET m == RoundMag(n, d)
    IN  IF m > MaxFinite THEN Inf(neg) ELSE Fin(neg, m)

Signed(a) == IF a.neg THEN -a.mag ELSE a.mag
Abs(n) == IF n < 0 THEN -n ELSE n

FNeg(a) == [a EXCEPT !.neg = ~a.neg]

FAdd(a, b) ==
    IF IsNaN(a) THEN a
    ELSE IF IsNaN(b) THEN b
    ELSE IF a.kind = "inf"
         THEN IF b.kind = "inf" /\ a.neg # b.neg THEN DefaultNaN ELSE a
    ELSE IF b.kind = "inf" THEN b
    ELSE LET s == Signed(a) + Signed(b)
         IN  IF s = 0 THEN Fin(a.neg /\ b.neg, 0)
             ELSE Rounded(s < 0, Abs(s), 1)

FSub(a, b) == FAdd(a, FNeg(b))

FMul(a, b) ==
    LET neg == (a.neg # b.neg)
    IN  IF IsNaN(a) THEN a
        ELSE IF IsNaN(b) THEN b
        ELSE IF a.kind = "inf" \/ b.kind = "inf"
             THEN IF (a.kind = "fin" /\ a.mag = 0) \/ (b.kind = "fin" /\ b.mag = 0)
                  THEN DefaultNaN ELSE Inf(neg)
        ELSE IF a.mag = 0 \/ b.mag = 0 THEN Fin(neg, 0)
        ELSE IF b.mag > ((MaxFinite + Pow2(MaxShift)) * Unit) \div a.mag + 1 THEN Inf(neg)
        ELSE Rounded(neg, a.mag * b.mag, Unit)

FDiv(a, b) ==
    LET neg == (a.neg # b.neg)
    IN  IF IsNaN(a) THEN a
        ELSE IF IsNaN(b) THEN b
        ELSE IF a.kind = "inf"
             THEN IF b.kind = "inf" THEN DefaultNaN ELSE Inf(neg)
        ELSE IF b.kind = "inf" THEN Fin(neg, 0)
        ELSE IF b.mag = 0
             THEN IF a.mag = 0 THEN DefaultNaN ELSE Inf(neg)
        ELSE Rounded(neg, a.mag * Unit, b.mag)

RECURSIVE ISqrtBetween(_, _, _)
\* the s with s*s <= x < (s+1)*(s+1), given lo*lo <= x < hi*hi
ISqrtBetween(x, lo, hi) ==
    IF hi - lo <= 1 THEN lo
    ELSE LET mid == (lo + hi) \div 2
         IN  IF mid * mid <= x THEN ISqrtBetween(x, mid, hi)
             ELSE ISqrtBetween(x, lo, mid)

RECURSIVE UpperRoot(_, _)
UpperRoot(x, h) == IF h * h > x THEN h ELSE UpperRoot(x, 2 * h)

ISqrt(x) == ISqrtBetween(x, 0, UpperRoot(x, 1))

\* sqrt(x) rounded to the nearest representable magnitude, ties to even
SqrtMag(x) ==
    LET s == ISqrt(x)
        k == Shift(s)
        g == Pow2(k)
        q == (s \div g) * g
        mid2 == 2 * q + g          \* twice the midpoint of q and q + g
    IN  IF 4 * x > mid2 * mid2 THEN q + g
        ELSE IF 4 * x < mid2 * mid2 THEN q
        ELSE q + ((q \div g) % 2) * g

FSqrt(a) ==
    IF IsNaN(a) THEN a
    ELSE IF a.kind = "fin" /\ a.mag = 0 THEN a
    ELSE IF a.neg THEN DefaultNaN
    ELSE IF a.kind = "inf" THEN a
    ELSE Fin(FALSE, SqrtMag(a.mag * Unit))

\* position on the extended real line of a float that is not NaN
Ord(a) ==
    IF a.kind = "inf" THEN (IF a.neg THEN -(MaxFinite + 1) ELSE MaxFinite + 1)
    ELSE Signed(a)

FLt(a, b) == ~IsNaN(a) /\ ~IsNaN(b) /\ Ord(a) < Ord(b)
FLe(a, b) == ~IsNaN(a) /\ ~IsNaN(b) /\ Ord(a) <= Ord(b)
FEq(a, b) == ~IsNaN(a) /\ ~IsNaN(b) /\ Ord(a) = Ord(b)

is_sign_positive(a) == ~a.neg

\* f64::min / f64::max: a NaN operand yields the other operand
FMin(a, b) == IF IsNaN(a) THEN b ELSE IF IsNaN(b) THEN a ELSE IF FLt(b, a) THEN b ELSE a
FMax(a, b) == IF IsNaN(a) THEN b ELSE IF IsNaN(b) THEN a ELSE IF FLt(a, b) THEN b ELSE a

\* f64::to_bits without the sign bit: exponent field and fraction
MagBits(a) ==
    IF a.kind = "nan" THEN (MaxShift + 2) * Pow2(MantBits - 1) + Pow2(MantBits - 2)
    ELSE IF a.kind = "inf" THEN (MaxShift + 2) * Pow2(MantBits - 1)
    ELSE LET k == Shift(a.mag) IN k * Pow2(MantBits - 1) + a.mag \div Pow2(k)

SignBit == (MaxShift + 3) * Pow2(MantBits - 1)

to_bits(a) == (IF a.neg THEN SignBit ELSE 0) + MagBits(a)

\* f64::total_cmp, as the integer key whose order it is
TotalKey(a) == IF a.neg THEN -1 - MagBits(a) ELSE MagBits(a)
total_cmp(a, b) ==
    IF TotalKey(a) < TotalKey(b) THEN -1 ELSE IF TotalKey(a) > TotalKey(b) THEN 1 ELSE 0

\* approx_eq_f64 with a strict comparison
approx_eq_f64_strict(a, b, ulp) ==
    LET au == to_bits(a)
        bu == to_bits(b)
    IN  (IF au > bu THEN au - bu ELSE bu - au) < ulp

approx_eq_f64(a, b, ulp) ==
    LET au == to_bits(a)
        bu == to_bits(b)
    IN  (IF au > bu THEN au - bu ELSE bu - au) <= ulp

----------------------------------------------------------------------------
(* FloatVec: src/src/dynamics/maths.rs *)

Vec(x, y) == [x |-> x, y |-> y]
origin == Vec(Zero, Zero)

VAdd(a, b) == Vec(FAdd(a.x, b.x), FAdd(a.y, b.y))
VSub(a, b) == Vec(FSub(a.x, b.x), FSub(a.y, b.y))
VMul(a, k) == Vec(FMul(a.x, k), FMul(a.y, k))
VDiv(a, k) == Vec(FDiv(a.x, k), FDiv(a.y, k))
\* impl PartialEq for FloatVec: IEEE equality of both components
VEq(a, b) == FEq(a.x, b.x) /\ FEq(a.y, b.y)

dot(a, b) == FAdd(FMul(a.x, b.x), FMul(a.y, b.y))

cross_squared(a, b) ==
    LET x == FSub(FMul(a.x, b.y), FMul(a.y, b.x))
    IN  FMul(x, x)

anti_clockwise_perpendicular(a) == Vec(FNeg(a.y), a.x)

approx_eq(a, b, ulp) == approx_eq_f64(a.x, b.x, ulp) /\ approx_eq_f64(a.y, b.y, ulp)

----------------------------------------------------------------------------
(* Ball, Container and the collision kernel: src/src/dynamics/collide.rs *)

Ball(pos, vel, r) == [pos |-> pos, vel |-> vel, r |-> r]

\* Option<T>: None is <<>>, Some(v) is <<v>>
None == <<>>
Some(v) == <<v>>

smallest_positive(a, b) ==
    LET x_min == FMin(a, b)
        x_max == FMax(a, b)
    IN  IF is_sign_positive(x_min) THEN Some(x_min)
        ELSE IF is_sign_positive(x_max) THEN Some(x_max)
        ELSE None

\* the quadratic shared by both impls; rr is (self.r + other.r) or (self.r - other.r)
\* the two roots, given dv.dot(dr), disc.sqrt() and dv_squared
RootsWith(dv_dr, sqrt_disc, dv_squared) ==
    smallest_positive(FDiv(FNeg(FAdd(dv_dr, sqrt_disc)), dv_squared),
                      FDiv(FNeg(FSub(dv_dr, sqrt_disc)), dv_squared))

\* if lhs < rhs { return None } and the discriminant
RootsFrom(dv_dr, dv_squared, lhs, rhs) ==
    IF FLt(lhs, rhs) THEN None
    ELSE RootsWith(dv_dr, FSqrt(FSub(lhs, rhs)), dv_squared)

RootsOf(dr, dv, rr, dv_squared) ==
    RootsFrom(dot(dv, dr), dv_squared, FMul(FMul(dv_squared, rr), rr), cross_squared(dr, dv))

Roots(dr, dv, rr) == RootsOf(dr, dv, rr, dot(dv, dv))

\* a variant that leaves the other ball's radius out
time_to_collision_own_radius(p, q) ==
    Roots(VSub(p.pos, q.pos), VSub(p.vel, q.vel), p.r)

\* impl Collide<Ball> for Ball :: time_to_collision
time_to_collision(p, q) ==
    Roots(VSub(p.pos, q.pos), VSub(p.vel, q.vel), FAdd(p.r, q.r))

\* impl Collide<Container> for Ball :: time_to_collision
time_to_container_collision(p, R) ==
    Roots(p.pos, p.vel, FSub(p.r, R))

\* centre.rs: Err(IntersectingParticles) is None
normalise(diff) == VDiv(diff, FSqrt(dot(diff, diff)))

normalised_difference(centre_a, centre_b) ==
    IF approx_eq(centre_a, centre_b, 1) THEN None
    ELSE Some(normalise(VSub(centre_a, centre_b)))

\* impl Collide<Ball> for Ball :: collide; the two new velocities, or None on Err
\* the exchange of the normal components, in the frame (loc, normed_normal)
FNegVec(a) == Vec(FNeg(a.x), FNeg(a.y))

\* a variant that exchanges the tangential components and keeps the normal ones
collide_in_frame_tangential(v1, v2, normed_normal, loc) ==
    <<VAdd(VMul(loc, dot(v2, loc)), VMul(normed_normal, dot(v1, normed_normal))),
      VAdd(VMul(loc, dot(v1, loc)), VMul(normed_normal, dot(v2, normed_normal)))>>

\* a variant in which each ball keeps its own normal component, reversed
collide_in_frame_reflect(v1, v2, normed_normal, loc) ==
    <<VSub(VMul(loc, dot(v1, loc)), VMul(normed_normal, dot(v1, normed_normal))),
      VSub(VMul(loc, dot(v2, loc)), VMul(normed_normal, dot(v2, normed_normal)))>>

\* a variant in which both balls leave with the second ball's normal component
collide_in_frame_sticky(v1, v2, normed_normal, loc) ==
    <<VAdd(VMul(loc, dot(v1, loc)), VMul(normed_normal, dot(v2, normed_normal))),
      VAdd(VMul(loc, dot(v2, loc)), VMul(normed_normal, dot(v2, normed_normal)))>>

collide_in_frame(v1, v2, normed_normal, loc) ==
    <<VAdd(VMul(loc, dot(v1, loc)), VMul(normed_normal, dot(v2, normed_normal))),
      VAdd(VMul(loc, dot(v2, loc)), VMul(normed_normal, dot(v1, normed_normal)))>>

collide_along(p, q, nd) ==
    IF nd = None THEN None
    ELSE Some(collide_in_frame(p.vel, q.vel, nd[1], anti_clockwise_perpendicular(nd[1])))

collide(p, q) == collide_along(p, q, normalised_difference(p.pos, q.pos))

\* impl Collide<Container> for Ball :: collide; the new velocity, or None on Err
\* the reflection of the normal component, in the frame (loc, normed_normal)
\* a variant that reverses the tangential component as well
reflect_in_frame_reverse(v, normed_normal, loc) ==
    VSub(FNegVec(VMul(loc, dot(v, loc))), VMul(normed_normal, dot(v, normed_normal)))

reflect_in_frame(v, normed_normal, loc) ==
    VSub(VMul(loc, dot(v, loc)), VMul(normed_normal, dot(v, normed_normal)))

container_collide_along(p, nd) ==
    IF nd = None THEN None
    ELSE Some(reflect_in_frame(p.vel, nd[1], anti_clockwise_perpendicular(nd[1])))

container_collide(p) == container_collide_along(p, normalised_difference(p.pos, origin))

----------------------------------------------------------------------------
(* Simulation: src/src/simulation/simulate.rs *)

\* CollisionPartner::Container; CollisionPartner::Ball(j) is the index j >= 1
Container == 0

\* Simulation::new(radius): the radius the simulation is constructed with
ContainerRadius == Lit(4 * Unit)
\* Params { delta }: the smallest positive step of the reduced format near 1
delta == Lit(1)
One == Lit(Unit)

\* an event of the heap; seg is history (the collision counts of the
\* participants when the event was computed) and is never read by the program
CollisionEvent(i, j, t, old_vels, sg) ==
    [i |-> i, j |-> j, t |-> t, old_vels |-> old_vels, seg |-> sg]

\* the `?` on the relative time and the event at global_time + it
event_after(time_to_collision_relative, g, i, j, old_vels, sg) ==
    IF time_to_collision_relative = None THEN None
    ELSE Some(CollisionEvent(i, j, FAdd(g, time_to_collision_relative[1]), old_vels, sg))

calculate_collision_event(bs, g, sg, i, j) ==
    event_after(time_to_collision(bs[i], bs[j]), g, i, j,
                <<bs[i].vel, bs[j].vel>>, <<sg[i], sg[j]>>)

\* a variant that schedules the wall contact at the relative time, global_time left out
calculate_container_collision_relative(bs, g, sg, i) ==
    event_after(time_to_container_collision(bs[i], ContainerRadius), Zero, i, Container,
                <<bs[i].vel, origin>>, <<sg[i], 0>>)

calculate_container_collision(bs, g, sg, i) ==
    event_after(time_to_container_collision(bs[i], ContainerRadius), g, i, Container,
                <<bs[i].vel, origin>>, <<sg[i], 0>>)

\* BinaryHeap::push of an Option: nothing is pushed for None
Push(q, opt) == IF opt = None THEN q ELSE Append(q, opt[1])

RECURSIVE PushPairs_with_self(_, _, _, _, _, _, _)
\* a variant that does not skip j = i
PushPairs_with_self(q, bs, g, sg, i, j, hi) ==
    IF j > hi THEN q
    ELSE PushPairs_with_self(Push(q, calculate_collision_event(bs, g, sg, i, j)),
                             bs, g, sg, i, j + 1, hi)

RECURSIVE PushPairs(_, _, _, _, _, _, _)
\* push the events of ball i with the balls j, j+1 .. hi, skipping j = i
PushPairs(q, bs, g, sg, i, j, hi) ==
    IF j > hi THEN q
    ELSE IF j = i THEN PushPairs(q, bs, g, sg, i, j + 1, hi)
    ELSE PushPairs(Push(q, calculate_collision_event(bs, g, sg, i, j)),
                   bs, g, sg, i, j + 1, hi)

RECURSIVE generate_from(_, _, _, _, _)
\* (0..n).combinations(2): for i in order, the pairs (i, j) with j > i
generate_from(q, bs, g, sg, i) ==
    IF i > Len(bs) THEN q
    ELSE generate_from(PushPairs(q, bs, g, sg, i, i + 1, Len(bs)), bs, g, sg, i + 1)

RECURSIVE permutations_from(_, _, _, _, _)
permutations_from(q, bs, g, sg, i) ==
    IF i > Len(bs) THEN q
    ELSE permutations_from(PushPairs(q, bs, g, sg, i, 1, Len(bs)), bs, g, sg, i + 1)

\* a variant that enumerates ordered pairs, (i, j) and (j, i) both
generate_collision_queue_permutations(q, bs, g, sg) == permutations_from(q, bs, g, sg, 1)

generate_collision_queue(q, bs, g, sg) == generate_from(q, bs, g, sg, 1)

RECURSIVE container_from(_, _, _, _, _)
container_from(q, bs, g, sg, i) ==
    IF i > Len(bs) THEN q
    ELSE container_from(Push(q, calculate_container_collision(bs, g, sg, i)),
                        bs, g, sg, i + 1)

generate_container_collisions(q, bs, g, sg) == container_from(q, bs, g, sg, 1)

initialise(q, bs, g, sg) ==
    generate_container_collisions(generate_collision_queue(q, bs, g, sg), bs, g, sg)

\* a variant that looks at the balls after i only, as generate_collision_queue does
push_collisions_upper(q, bs, g, sg, i) ==
    Push(PushPairs(q, bs, g, sg, i, i + 1, Len(bs)),
         calculate_container_collision(bs, g, sg, i))

\* a variant that first removes the events of ball i from the queue
push_collisions_purging(q, bs, g, sg, i) ==
    Push(PushPairs(SelectSeq(q, LAMBDA e : e.i # i /\ e.j # i), bs, g, sg, i, 1, Len(bs)),
         calculate_container_collision(bs, g, sg, i))

push_collisions(q, bs, g, sg, i) ==
    Push(PushPairs(q, bs, g, sg, i, 1, Len(bs)),
         calculate_container_collision(bs, g, sg, i))

\* a variant that moves every ball by the whole of t
step_balls_unshrunk(bs, t) ==
    [k \in 1..Len(bs) |-> [bs[k] EXCEPT !.pos = VAdd(bs[k].pos, VMul(bs[k].vel, t))]]

\* Ball::step over every ball
step_balls(bs, t) ==
    [k \in 1..Len(bs) |->
        [bs[k] EXCEPT !.pos = VAdd(bs[k].pos, VMul(bs[k].vel, FMul(t, FSub(One, delta))))]]

\* a variant without Reverse: a max-heap, whose pop yields a greatest event
MinIdx_unreversed(q) ==
    {k \in 1..Len(q) : \A m \in 1..Len(q) : total_cmp(q[k].t, q[m].t) >= 0}

\* the heap's order: impl Ord for CollisionEvent under Reverse, so pop yields a
\* least event; which of several equal ones is not determined by its contract
MinIdx(q) == {k \in 1..Len(q) : \A m \in 1..Len(q) : total_cmp(q[k].t, q[m].t) <= 0}

Remove(q, k) == [m \in 1..(Len(q) - 1) |-> IF m < k THEN q[m] ELSE q[m + 1]]

PartnerVel(bs, j) == IF j = Container THEN origin ELSE bs[j].vel

\* a variant that compares the first participant's velocity only
Fresh_first_only(bs, e) == VEq(bs[e.i].vel, e.old_vels[1])

\* the test of next_collision: curr_vels == old_vels
Fresh(bs, e) == VEq(bs[e.i].vel, e.old_vels[1]) /\ VEq(PartnerVel(bs, e.j), e.old_vels[2])

\* collide_members: the balls with the new velocities, or None on Err
\* collide_by_index: the `?` on the kernel's result and the two assignments
\* a variant that gives the second velocity to every ball but the first
set_vels_all(bs, i, j, v) ==
    IF v = None THEN None
    ELSE Some([k \in 1..Len(bs) |->
                 IF k = i THEN [bs[k] EXCEPT !.vel = v[1][1]]
                 ELSE [bs[k] EXCEPT !.vel = v[1][2]]])

set_vels(bs, i, j, v) ==
    IF v = None THEN None
    ELSE Some([k \in 1..Len(bs) |->
                 IF k = i THEN [bs[k] EXCEPT !.vel = v[1][1]]
                 ELSE IF k = j THEN [bs[k] EXCEPT !.vel = v[1][2]]
                 ELSE bs[k]])

set_vel(bs, i, v) ==
    IF v = None THEN None
    ELSE Some([k \in 1..Len(bs) |-> IF k = i THEN [bs[k] EXCEPT !.vel = v[1]] ELSE bs[k]])

collide_members(bs, i, j) ==
    IF j = Container
    THEN set_vel(bs, i, container_collide(bs[i]))
    ELSE set_vels(bs, i, j, collide(bs[i], bs[j]))

\* pub fn step(t): the balls and the time after it
step(bs, g, t) == [balls |-> step_balls(bs, t), global_time |-> FAdd(g, t)]

step_by(bs, g, dt) ==
    IF ~is_sign_positive(dt) THEN None ELSE Some(step(bs, g, dt))

\* pub fn step_until(t): None on Err(SimulationFailure)
step_until(bs, g, t) == step_by(bs, g, FSub(t, g))

\* the second push_collisions of step_through_collision, for a ball partner
push_partner(q, bs, g, sg, j) ==
    IF j = Container THEN q ELSE push_collisions(q, bs, g, sg, j)

\* history: the collision counts after event e is applied
Bump(sg, e) == [k \in 1..Len(sg) |-> IF k = e.i \/ k = e.j THEN sg[k] + 1 ELSE sg[k]]

----------------------------------------------------------------------------
(* Inputs: the arguments the Python caller passes *)

Radius == Lit(Unit \div 2)

\* n sixteenths, as a literal
Sixteenths(n) == Lit((n * Unit) \div 16)

BallAt(px, py, vx, vy) ==
    Ball(Vec(Sixteenths(px), Sixteenths(py)), Vec(Sixteenths(vx), Sixteenths(vy)), Radius)

\* two balls on the x axis, the rear one faster
ChaseBalls == <<BallAt(16, 0, 16, 0), BallAt(-32, 0, 32, 0)>>
\* a pair mirrored in the y axis moving apart, and a third ball on the y axis
MirrorBalls == <<BallAt(17, 0, 7, 0), BallAt(-17, 0, -7, 0), BallAt(0, -28, 0, -24)>>
\* one ball at rest, clear of the x axis
StillBall == <<BallAt(0, -32, 0, 0)>>
\* two balls at rest, clear of the x axis
StillBalls == <<BallAt(0, -32, 0, 0), BallAt(0, 32, 0, 0)>>
\* three balls that meet obliquely: the third strikes the second away
\* before the first reaches it
ObliqueBalls == <<BallAt(0, -40, 0, 32), BallAt(0, 8, -16, 0), BallAt(16, 40, -24, -32)>>

\* two balls halfway between the centre and the wall on the x axis, head on
HeadOnBalls == <<BallAt(-32, 0, 16, 0), BallAt(32, 0, -16, 0)>>

\* two balls passing each other at a transverse offset of exactly r1 + r2
GlancingBalls == <<BallAt(-24, -8, 16, 0), BallAt(24, 8, -16, 0)>>

BallLists == {ChaseBalls, MirrorBalls, StillBall, ObliqueBalls}

\* the lists of balls that do not move
RestLists == {StillBalls}

StepArgs == {Lit(Unit), Lit(-Unit)}

\* the absolute times step_until is called with
StepUntilArgs == {Sixteenths(8), Sixteenths(90)}

\* the numbers of collisions run_collisions is called with
RunArgs == {0, 2}

\* synthetic events to put into the queue: container events of the first ball
\* with a witness that ball does not have when they are injected
SyntheticEvents ==
    {CollisionEvent(1, Container, Sixteenths(34), <<Vec(Sixteenths(32), Zero), origin>>,
                    <<-1, -1>>),
     CollisionEvent(1, Container, Sixteenths(34), <<Vec(Sixteenths(48), Zero), origin>>,
                    <<-1, -1>>)}

----------------------------------------------------------------------------
(* The state machine *)

\* history only: what the caller has done so far, the events applied, and of
\* the events the current call of step_through_collision has popped their
\* number and the latest scheduled time (in the heap's order)
Hist0 == [calls |-> 0, inits |-> 0, adds |-> 0, late_adds |-> 0, manual |-> 0,
          spins |-> 0, applied |-> <<>>, popped_n |-> 0, popped_max |-> None,
          entry_time |-> Zero, arg |-> None, run_n |-> 0, run_base |-> 0,
          start |-> <<>>, injected |-> 0,
          last_op |-> "new"]

\* no channel exists and no consumer thread
NoPipe == [tx_raw |-> "none", raw |-> <<>>, consumer |-> "none", data |-> <<>>,
           tx_hist |-> <<>>, current_time |-> Zero, local_sum |-> Zero, n |-> 0,
           inner |-> 0, sent |-> <<>>, at_call |-> Zero, out |-> None]

\* no operation is being executed
NoFrame == [op |-> "none", left |-> 0]

\* Simulation::new(radius)
Init ==
    /\ global_time = Zero
    /\ balls = <<>>
    /\ collisions = <<>>
    /\ pc = "idle"
    /\ cur = <<>>
    /\ last = <<>>
    /\ result = "none"
    /\ nan_neg \in BOOLEAN
    /\ pipe = NoPipe
    /\ seg = <<>>
    /\ frame = NoFrame
    /\ hist = Hist0

Sq(n) == n * n

\* the caller's side of add_balls: a ball lies inside the container and overlaps
\* no ball already there (exact arithmetic on the inputs)
ValidBall(b, bs) ==
    /\ \A k \in 1..Len(bs) : bs[k].pos.x.kind = "fin" /\ bs[k].pos.y.kind = "fin"
    /\ Sq(Signed(b.pos.x)) + Sq(Signed(b.pos.y)) <= Sq(Signed(ContainerRadius) - Signed(b.r))
    /\ \A k \in 1..Len(bs) :
          Sq(Signed(b.pos.x) - Signed(bs[k].pos.x)) + Sq(Signed(b.pos.y) - Signed(bs[k].pos.y))
            > Sq(Signed(b.r) + Signed(bs[k].r))

ValidBalls(new, bs) ==
    \A k \in 1..Len(new) : ValidBall(new[k], bs \o SubSeq(new, 1, k - 1))

\* add_balls(balls): every ball of the list is pushed; nothing is checked
add_balls(new) ==
    /\ pc = "idle"
    /\ Len(balls) + Len(new) <= MaxBalls
    /\ ValidBalls(new, balls)
    /\ balls' = balls \o new
    /\ seg' = seg \o [k \in 1..Len(new) |-> 0]
    /\ hist' = [hist EXCEPT !.adds = @ + 1,
                            !.late_adds = IF hist.inits > 0 THEN @ + 1 ELSE @,
                            !.last_op = "add_balls"]
    /\ result' = "none"
    /\ UNCHANGED <<global_time, collisions, pc, cur, last, nan_neg, pipe, frame>>

\* Simulation::initialise (mod.rs)
Initialise ==
    /\ pc = "idle"
    /\ hist.inits < MaxInit
    /\ collisions' = initialise(collisions, balls, global_time, seg)
    /\ hist' = [hist EXCEPT !.inits = @ + 1, !.last_op = "initialise",
                            !.start = IF hist.inits = 0 THEN balls ELSE @]
    /\ result' = "none"
    /\ UNCHANGED <<global_time, balls, pc, cur, last, nan_neg, pipe, seg, frame>>

\* pub fn step(t)
Step(t) ==
    /\ pc = "idle"
    /\ hist.manual < MaxManual
    /\ balls' = step(balls, global_time, t).balls
    /\ global_time' = step(balls, global_time, t).global_time
    /\ hist' = [hist EXCEPT !.manual = @ + 1, !.arg = Some(t), !.last_op = "step"]
    /\ result' = "none"
    /\ UNCHANGED <<collisions, pc, cur, last, nan_neg, pipe, seg, frame>>

\* pub fn step_until(t), called by the user; st is its outcome
StepUntilTo(t, st) ==
    /\ pc = "idle"
    /\ hist.manual < MaxManual
    /\ IF st = None
       THEN /\ result' = "SimulationFailure"
            /\ UNCHANGED <<global_time, balls>>
       ELSE /\ result' = "Ok"
            /\ balls' = st[1].balls
            /\ global_time' = st[1].global_time
    /\ hist' = [hist EXCEPT !.manual = @ + 1, !.arg = Some(t), !.last_op = "step_until"]
    /\ UNCHANGED <<collisions, pc, cur, last, nan_neg, pipe, seg, frame>>

StepUntil(t) == StepUntilTo(t, step_until(balls, global_time, t))

\* step_through_collision is entered: next_collision_or_err starts its loop
Enter(h) == [h EXCEPT !.calls = @ + 1, !.popped_n = 0, !.popped_max = None,
                          !.spins = 0]

Call ==
    /\ pc = "idle"
    /\ hist.calls < MaxSteps
    /\ pc' = "next_collision_or_err"
    /\ frame' = [op |-> "step_through_collision", left |-> 1]
    /\ hist' = [Enter(hist) EXCEPT !.entry_time = global_time,
                                   !.last_op = "step_through_collision"]
    /\ last' = <<>>
    /\ cur' = <<>>
    /\ result' = "none"
    /\ UNCHANGED <<global_time, balls, collisions, nan_neg, pipe, seg>>

\* fn step_with_data is entered: next_collision_or_err starts its loop
CallWithData ==
    /\ pc = "idle"
    /\ hist.calls < MaxSteps
    /\ pc' = "next_collision_or_err"
    /\ frame' = [op |-> "step_with_data", left |-> 1]
    /\ hist' = [Enter(hist) EXCEPT !.entry_time = global_time,
                                   !.last_op = "step_with_data"]
    /\ last' = <<>>
    /\ cur' = <<>>
    /\ result' = "none"
    /\ UNCHANGED <<global_time, balls, collisions, nan_neg, pipe, seg>>

\* pub fn run_collisions(n): for _ in 0..n { self.step_through_collision()?; } Ok(())
RunCollisions(n) ==
    /\ pc = "idle"
    /\ hist.calls + n <= MaxSteps
    /\ IF n = 0
       THEN /\ result' = "Ok"
            /\ hist' = [hist EXCEPT !.run_n = n, !.run_base = Len(hist.applied),
                                    !.last_op = "run_collisions"]
            /\ UNCHANGED <<pc, frame, last, cur>>
       ELSE /\ pc' = "next_collision_or_err"
            /\ frame' = [op |-> "run_collisions", left |-> n]
            /\ hist' = [Enter(hist) EXCEPT !.entry_time = global_time,
                                           !.run_n = n, !.run_base = Len(hist.applied),
                                           !.last_op = "run_collisions"]
            /\ last' = <<>>
            /\ cur' = <<>>
            /\ result' = "none"
    /\ UNCHANGED <<global_time, balls, collisions, nan_neg, pipe, seg>>

\* one iteration of the while loop of next_collision_or_err: one next_collision
NextCollision ==
    /\ pc = "next_collision_or_err"
    /\ IF collisions = <<>>
       THEN \* pop()? returns None, collision_event stays None, the loop repeats
            /\ hist' = [hist EXCEPT !.spins = IF @ < MaxSpin THEN @ + 1 ELSE @]
            /\ UNCHANGED <<global_time, balls, collisions, pc, cur, last, result,
                           nan_neg, pipe, seg, frame>>
       ELSE \E k \in MinIdx(collisions) :
            LET e == collisions[k]
                fresh == Fresh(balls, e)
            IN  /\ collisions' = Remove(collisions, k)
                /\ last' = <<[ev |-> e, fresh |-> fresh]>>
                /\ hist' = [hist EXCEPT
                              !.popped_n = @ + 1,
                              !.popped_max = IF @ # None /\ total_cmp(e.t, @[1]) < 0
                                             THEN @ ELSE Some(e.t)]
                /\ IF fresh
                   THEN pc' = "step_until" /\ cur' = <<e>>
                   ELSE UNCHANGED <<pc, cur>>
                /\ UNCHANGED <<global_time, balls, result, nan_neg, pipe, seg, frame>>

\* the rest of step_through_collision: step_until, collide_members, push_collisions
\* a variant of the loop that stops one iteration early
last_iteration_early(fr) == fr.left <= 2

\* for _ in 0..n: the iteration being executed is the last one
last_iteration(fr) == fr.left <= 1

\* the operations that forward times to a consumer thread
PipelineOps == {"collision_times", "nth_collision_times"}

\* step_through_collision returns r, the history being h: an error ends the
\* executing operation (the `?`), Ok(()) ends it or starts the next iteration
Return(r, h, g) ==
    /\ result' = r
    /\ cur' = <<>>
    /\ last' = <<>>
    /\ IF r = "Ok" /\ frame.op = "run_collisions" /\ ~last_iteration(frame)
       THEN /\ pc' = "next_collision_or_err"
            /\ frame' = [frame EXCEPT !.left = @ - 1]
            /\ hist' = [Enter(h) EXCEPT !.entry_time = g]
       ELSE IF frame.op \in PipelineOps
       THEN \* self.py_next_collision()? inside collision_times: go on, or unwind
            /\ pc' = IF r = "Ok" THEN "send" ELSE "unwind"
            /\ frame' = frame
            /\ hist' = h
       ELSE /\ pc' = "idle"
            /\ frame' = NoFrame
            /\ hist' = h

\* push_collisions(i), push_collisions(j) for a ball partner, Ok(())
Reschedule(e, bs, g, sg) ==
    /\ balls' = bs
    /\ seg' = sg
    /\ collisions' = push_partner(push_collisions(collisions, bs, g, sg, e.i), bs, g, sg, e.j)
    /\ Return("Ok", [hist EXCEPT !.applied = Append(@, e)], g)

\* self.collide_members(i, j)? on the stepped balls bs1
Collided(e, bs1, g1, bs2) ==
    IF bs2 = None
    THEN /\ balls' = bs1
         /\ UNCHANGED <<collisions, seg>>
         /\ Return("IntersectingParticles", hist, g1)
    ELSE Reschedule(e, bs2[1], g1, Bump(seg, e))

\* self.step_until(t)? with the outcome st of step_until
Stepped(e, st) ==
    IF st = None
    THEN /\ UNCHANGED <<global_time, balls, collisions, seg>>
         /\ Return("SimulationFailure", hist, global_time)
    ELSE /\ global_time' = st[1].global_time
         /\ IF frame.op = "step_with_data"
            THEN \* step_with_data reads the time and a velocity and reaches todo!()
                 /\ balls' = st[1].balls
                 /\ UNCHANGED <<collisions, seg>>
                 /\ Return("panic", hist, st[1].global_time)
            ELSE Collided(e, st[1].balls, st[1].global_time,
                          collide_members(st[1].balls, e.i, e.j))

Apply ==
    /\ pc = "step_until"
    /\ Stepped(cur[1], step_until(balls, global_time, cur[1].t))
    /\ UNCHANGED <<nan_neg, pipe>>

----------------------------------------------------------------------------
(* collision_times and nth_collision_times: src/src/simulation/mod.rs *)

\* the arguments left, right and bins of the calls of the model, in sixteenths
HistLeft == Zero
HistRight == Lit(8 * Unit)
HistBins == 4

\* histogram.rs, BinEdges::new: the width of a bin
BinWidth == FDiv(FSub(HistRight, HistLeft), Lit(HistBins * Unit))

\* `val as usize` for the values that pass the filter
AsUsize(a) == IF a.kind = "fin" /\ ~a.neg THEN a.mag \div Unit ELSE 0

\* histogram.rs, bin: the values of data that fall in [left, right), counted by bin
BinIndex(val) == AsUsize(FDiv(FSub(val, HistLeft), BinWidth))
InRange(val) ==
    /\ FLe(Zero, FSub(val, HistLeft))
    /\ FLt(FSub(val, HistLeft), FSub(HistRight, HistLeft))
Histogram_bin(data) ==
    [b \in 0..(HistBins - 1) |->
        Cardinality({k \in 1..Len(data) : InRange(data[k]) /\ BinIndex(data[k]) = b})]

\* the next call of py_next_collision inside the loop
NextCall ==
    /\ pc' = "next_collision_or_err"
    /\ hist' = [Enter(hist) EXCEPT !.entry_time = global_time]
    /\ last' = <<>>
    /\ cur' = <<>>

\* collision_times(no_collisions, left, right, bins) is called: the channel is
\* made, current_time is 0, and the loop begins
CollisionTimes(n) ==
    /\ pc = "idle"
    /\ hist.calls + n <= MaxSteps
    /\ pipe' = [NoPipe EXCEPT !.tx_raw = "open", !.at_call = global_time]
    /\ frame' = [op |-> "collision_times", left |-> n]
    /\ result' = "none"
    /\ IF n = 0
       THEN /\ pc' = "drop_tx"
            /\ hist' = [hist EXCEPT !.last_op = "collision_times"]
            /\ UNCHANGED <<last, cur>>
       ELSE /\ pc' = "next_collision_or_err"
            /\ hist' = [Enter(hist) EXCEPT !.entry_time = global_time,
                                           !.last_op = "collision_times"]
            /\ last' = <<>>
            /\ cur' = <<>>
    /\ UNCHANGED <<global_time, balls, collisions, nan_neg, seg>>

\* nth_collision_times(n, no_collisions, ..): no_collisions / n rounds of n
\* calls; the division panics for n = 0
NthCollisionTimes(n, no_collisions) ==
    /\ pc = "idle"
    /\ hist.calls + no_collisions <= MaxSteps
    /\ IF n = 0
       THEN /\ result' = "panic"
            /\ pipe' = [NoPipe EXCEPT !.tx_raw = "dropped", !.at_call = global_time]
            /\ hist' = [hist EXCEPT !.last_op = "nth_collision_times"]
            /\ UNCHANGED <<pc, frame, last, cur>>
       ELSE /\ result' = "none"
            /\ pipe' = [NoPipe EXCEPT !.tx_raw = "open", !.at_call = global_time,
                                      !.n = n, !.inner = n]
            /\ frame' = [op |-> "nth_collision_times", left |-> no_collisions \div n]
            /\ IF no_collisions \div n = 0
               THEN /\ pc' = "drop_tx"
                    /\ hist' = [hist EXCEPT !.last_op = "nth_collision_times"]
                    /\ UNCHANGED <<last, cur>>
               ELSE /\ pc' = "next_collision_or_err"
                    /\ hist' = [Enter(hist) EXCEPT !.entry_time = global_time,
                                                   !.last_op = "nth_collision_times"]
                    /\ last' = <<>>
                    /\ cur' = <<>>
    /\ UNCHANGED <<global_time, balls, collisions, nan_neg, seg>>

\* Send with the record lost on its way into the channel
Send_lossy ==
    /\ pc = "send"
    /\ frame.op = "collision_times"
    /\ pipe.tx_raw = "open"
    /\ LET collision_delta_t == FSub(global_time, pipe.current_time)
       IN  pipe' = [pipe EXCEPT !.current_time = global_time,
                                !.sent = Append(@, collision_delta_t)]
    /\ IF frame.left > 1
       THEN /\ frame' = [frame EXCEPT !.left = @ - 1]
            /\ NextCall
       ELSE /\ frame' = [frame EXCEPT !.left = 0]
            /\ pc' = "drop_tx"
            /\ UNCHANGED <<hist, last, cur>>
    /\ UNCHANGED <<global_time, balls, collisions, result, nan_neg, seg>>

\* collision_times, the rest of the loop body after py_next_collision()?:
\* collision_delta_t, current_time, tx_raw.send(..).unwrap(); the channel is
\* unbounded, and the receiver is alive in this scope
Send ==
    /\ pc = "send"
    /\ frame.op = "collision_times"
    /\ pipe.tx_raw = "open"
    /\ LET collision_delta_t == FSub(global_time, pipe.current_time)
       IN  pipe' = [pipe EXCEPT !.current_time = global_time,
                                !.raw = Append(@, collision_delta_t),
                                !.sent = Append(@, collision_delta_t)]
    /\ IF frame.left > 1
       THEN /\ frame' = [frame EXCEPT !.left = @ - 1]
            /\ NextCall
       ELSE /\ frame' = [frame EXCEPT !.left = 0]
            /\ pc' = "drop_tx"
            /\ UNCHANGED <<hist, last, cur>>
    /\ UNCHANGED <<global_time, balls, collisions, result, nan_neg, seg>>

\* nth_collision_times, the rest of the inner loop body, and after the n-th
\* call of a round tx_raw.send(local_sum).unwrap()
Accumulate ==
    /\ pc = "send"
    /\ frame.op = "nth_collision_times"
    /\ pipe.tx_raw = "open"
    /\ LET collision_delta_t == FSub(global_time, pipe.current_time)
           local_sum == FAdd(pipe.local_sum, collision_delta_t)
       IN  IF pipe.inner > 1
           THEN /\ pipe' = [pipe EXCEPT !.current_time = global_time,
                                        !.local_sum = local_sum, !.inner = @ - 1]
                /\ frame' = frame
                /\ NextCall
           ELSE /\ pipe' = [pipe EXCEPT !.current_time = global_time,
                                        !.local_sum = Zero, !.inner = pipe.n,
                                        !.raw = Append(@, local_sum),
                                        !.sent = Append(@, local_sum)]
                /\ IF frame.left > 1
                   THEN /\ frame' = [frame EXCEPT !.left = @ - 1]
                        /\ NextCall
                   ELSE /\ frame' = [frame EXCEPT !.left = 0]
                        /\ pc' = "drop_tx"
                        /\ UNCHANGED <<hist, last, cur>>
    /\ UNCHANGED <<global_time, balls, collisions, result, nan_neg, seg>>

\* drop(tx_raw)
DropTx ==
    /\ pc = "drop_tx"
    /\ pipe' = [pipe EXCEPT !.tx_raw = "dropped"]
    /\ pc' = "spawn"
    /\ UNCHANGED <<global_time, balls, collisions, cur, last, result, nan_neg, seg, frame, hist>>

\* mpsc::channel() for the histogram and thread::spawn; the main thread goes
\* on to rx_hist.recv()
Spawn ==
    /\ pc = "spawn"
    /\ pipe' = [pipe EXCEPT !.consumer = "running"]
    /\ pc' = "recv_hist"
    /\ UNCHANGED <<global_time, balls, collisions, cur, last, result, nan_neg, seg, frame, hist>>

\* the consumer thread: rx_raw.into_iter() yields the next value
ConsumerRecv ==
    /\ pipe.consumer = "running"
    /\ pipe.raw # <<>>
    /\ pipe' = [pipe EXCEPT !.raw = Tail(@), !.data = Append(@, Head(pipe.raw))]
    /\ UNCHANGED <<global_time, balls, collisions, pc, cur, last, result, nan_neg, seg, frame, hist>>

\* the consumer thread: the channel is empty and hung up, the iterator ends;
\* Histogram::bin returns, tx_hist.send(hist).unwrap(), the thread ends
ConsumerEnd ==
    /\ pipe.consumer = "running"
    /\ pipe.raw = <<>>
    /\ pipe.tx_raw = "dropped"
    /\ pipe' = [pipe EXCEPT !.consumer = "done", !.tx_hist = Append(@, Histogram_bin(pipe.data))]
    /\ UNCHANGED <<global_time, balls, collisions, pc, cur, last, result, nan_neg, seg, frame, hist>>

\* the main thread: rx_hist.recv().unwrap() returns the histogram; Ok(dict_map)
MainRecv ==
    /\ pc = "recv_hist"
    /\ pipe.tx_hist # <<>>
    /\ pipe' = [pipe EXCEPT !.tx_hist = Tail(@), !.out = Some(Head(pipe.tx_hist))]
    /\ pc' = "idle"
    /\ frame' = NoFrame
    /\ result' = "Ok"
    /\ UNCHANGED <<global_time, balls, collisions, cur, last, nan_neg, seg, hist>>

\* py_next_collision()? returned the error: collision_times returns it, and
\* both ends of the channel are dropped with what it holds
Unwind ==
    /\ pc = "unwind"
    /\ pipe' = [pipe EXCEPT !.tx_raw = "dropped", !.raw = <<>>]
    /\ pc' = "idle"
    /\ frame' = NoFrame
    /\ UNCHANGED <<global_time, balls, collisions, cur, last, result, nan_neg, seg, hist>>

\* numbers of collisions asked of collision_times, and (n, no_collisions) of
\* nth_collision_times
TimesArgs == {0, 1, 2}
NthArgs == {<<0, 1>>, <<1, 2>>, <<2, 2>>, <<2, 3>>, <<2, 1>>}

\* thermalising calls of py_next_collision and then one of the two operations;
\* the consumer thread and the main thread are scheduled: a thread that can
\* take its step takes it
NextPipeline ==
    \/ \E new \in BallLists : add_balls(new)
    \/ Initialise
    \/ Call
    \/ \E n \in TimesArgs : CollisionTimes(n)
    \/ \E a \in NthArgs : NthCollisionTimes(a[1], a[2])
    \/ NextCollision
    \/ Apply
    \/ Send
    \/ Accumulate
    \/ DropTx
    \/ Spawn
    \/ ConsumerRecv
    \/ ConsumerEnd
    \/ MainRecv
    \/ Unwind

\* the step of the main thread that leaves tx_raw.send(..): it returns at once
Sends == pc = "send" /\ pc' \in {"next_collision_or_err", "drop_tx"}

\* the step of the consumer thread that ends it, whatever histogram it sends
ConsumerFinishes ==
    /\ pipe.consumer = "running"
    /\ pipe.raw = <<>>
    /\ pipe.tx_raw = "dropped"
    /\ \E h \in [0..(HistBins - 1) -> 0..MaxSteps] :
           pipe' = [pipe EXCEPT !.consumer = "done", !.tx_hist = Append(@, h)]

SpecPipeline ==
    Init /\ [][NextPipeline]_vars
         /\ WF_pc(Sends) /\ WF_vars(ConsumerRecv) /\ WF_pipe(ConsumerFinishes)
         /\ WF_vars(MainRecv)

\* an event that is stale now is pushed into the heap from outside
Inject(e) ==
    /\ pc = "idle"
    /\ hist.inits > 0
    /\ hist.injected < MaxInject
    /\ e.i \in 1..Len(balls)
    /\ ~Fresh(balls, e)
    /\ collisions' = Append(collisions, e)
    /\ hist' = [hist EXCEPT !.injected = @ + 1, !.last_op = "inject"]
    /\ result' = "none"
    /\ UNCHANGED <<global_time, balls, pc, cur, last, nan_neg, pipe, seg, frame>>

\* the public operations one call at a time: add_balls, initialise, step,
\* step_until and step_through_collision
Next ==
    \/ \E new \in BallLists : add_balls(new)
    \/ Initialise
    \/ \E t \in StepArgs : Step(t)
    \/ \E t \in StepUntilArgs : StepUntil(t)
    \/ Call
    \/ NextCollision
    \/ Apply

Spec == Init /\ [][Next]_vars

\* the runs of add_balls, initialise, step_through_collision and run_collisions
NextRun ==
    \/ \E new \in BallLists : add_balls(new)
    \/ Initialise
    \/ Call
    \/ \E n \in RunArgs : RunCollisions(n)
    \/ NextCollision
    \/ Apply

SpecRun == Init /\ [][NextRun]_vars

\* the same runs with the private step_with_data among the operations
NextData == NextRun \/ CallWithData

SpecData == Init /\ [][NextData]_vars

\* add_balls, initialise and step_through_collision on a queue that receives
\* synthetic stale events
NextInject ==
    \/ \E new \in BallLists : add_balls(new)
    \/ Initialise
    \/ Call
    \/ NextCollision
    \/ Apply
    \/ \E e \in SyntheticEvents : Inject(e)

SpecInject == Init /\ [][NextInject]_vars

\* the runs of add_balls, initialise, step_through_collision and
\* run_collisions on balls at rest
NextRest ==
    \/ \E new \in RestLists : add_balls(new)
    \/ Initialise
    \/ Call
    \/ \E n \in RunArgs : RunCollisions(n)
    \/ NextCollision
    \/ Apply

SpecRest == Init /\ [][NextRest]_vars

\* a step that leaves the handling of the popped fresh event; at that
\* position Apply alone is enabled, and every step of Apply is such a step
Leaves == pc = "step_until" /\ pc' \in {"idle", "next_collision_or_err"}

\* the same runs where a call that has begun goes on: the loop of
\* next_collision_or_err takes its next iteration, and the rest of
\* step_through_collision is executed (single thread, no blocking call)
SpecRunFair == SpecRun /\ WF_vars(NextCollision) /\ WF_pc(Leaves)

HeadOnLists == {HeadOnBalls, GlancingBalls}

\* the runs of add_balls, initialise, step_through_collision and
\* run_collisions on the head-on pair and on the glancing pair
NextHeadOn ==
    \/ \E new \in HeadOnLists : add_balls(new)
    \/ Initialise
    \/ Call
    \/ \E n \in RunArgs : RunCollisions(n)
    \/ NextCollision
    \/ Apply

SpecHeadOn == Init /\ [][NextHeadOn]_vars

----------------------------------------------------------------------------
(* The kernel called directly: Collide<Ball> and Collide<Container> on balls
   built by Ball::new, as the tests of src/src/dynamics do *)

\* velocities of the first ball and of the second, in sixteenths
FirstVels == {<<16, 0>>, <<0, 0>>, <<16, 16>>, <<24, 8>>, <<0, 16>>, <<12, 16>>}
SecondVels == {<<0, 0>>, <<-16, 0>>, <<16, 0>>, <<-8, -24>>}
\* centres of the second ball, the first being at the origin: ahead on the x
\* axis, in contact, on the diagonal, off the axis by r1 + r2 and by more, on
\* the line of slope 4/3, the same centre
SecondCentres == {<<32, 0>>, <<16, 0>>, <<24, 24>>, <<40, 16>>, <<48, 32>>, <<36, 5>>,
                  <<24, 32>>, <<0, 0>>}

\* the symmetric head-on case: centres at -p and p, velocities v and -v
HeadOnHalves == {10, 16, 32}
HeadOnSpeeds == {9, 16, 24}

KernelPairs ==
    {<<BallAt(0, 0, v[1], v[2]), BallAt(c[1], c[2], w[1], w[2])>> :
        v \in FirstVels, w \in SecondVels, c \in SecondCentres}
    \cup
    {<<BallAt(-p, 0, v, 0), BallAt(p, 0, -v, 0)>> : p \in HeadOnHalves, v \in HeadOnSpeeds}

\* one ball in the container: centres and velocities in sixteenths
SingleCentres == {<<0, 0>>, <<32, 0>>, <<56, 0>>, <<0, -40>>, <<24, 24>>, <<-36, 5>>}
SingleVels == {<<16, 0>>, <<-16, 0>>, <<0, 0>>, <<16, 16>>, <<-8, 24>>}

KernelSingles ==
    {<<BallAt(c[1], c[2], v[1], v[2])>> : c \in SingleCentres, v \in SingleVels}

\* -0.0
NegZero == FNeg(Zero)

\* a coordinate far enough from zero for neighbouring representable values
\* to be a sixteenth and more apart, and the next two representable values
FarCoord == Pow2(MantBits + FracBits - 2)
FarNext == FarCoord + Pow2(FracBits - 1)
FarSecond == FarCoord + Pow2(FracBits)

\* pairs of centres that coincide or nearly do: the same centre, centres that
\* differ in the sign of a zero coordinate, centres one representable value
\* apart (next to zero and far from it) and two
NearCentres ==
    {<<Vec(Zero, Zero), Vec(NegZero, Zero)>>,
     <<Vec(NegZero, Lit(Unit)), Vec(Zero, Lit(Unit))>>,
     <<Vec(Lit(Unit), Zero), Vec(Lit(Unit), NegZero)>>,
     <<Vec(NegZero, NegZero), Vec(NegZero, NegZero)>>,
     <<Vec(Lit(24), Lit(24)), Vec(Lit(24), Lit(24))>>,
     <<Vec(Lit(24), Lit(24)), Vec(Lit(25), Lit(24))>>,
     <<Vec(Lit(FarCoord), Zero), Vec(Lit(FarNext), Zero)>>,
     <<Vec(Lit(FarCoord), Zero), Vec(Lit(FarSecond), Zero)>>,
     <<Vec(Lit(1), Zero), Vec(Zero, Zero)>>,
     <<Vec(Lit(-1), Zero), Vec(NegZero, Zero)>>}

\* the velocities of such pairs, in sixteenths
NearVels == {<<16, 0>>, <<0, 0>>, <<-8, 24>>}

NearPairs ==
    {<<Ball(c[1], Vec(Sixteenths(v[1]), Sixteenths(v[2])), Radius),
       Ball(c[2], Vec(Sixteenths(w[1]), Sixteenths(w[2])), Radius)>> :
        c \in NearCentres, v \in NearVels, w \in NearVels}

\* one ball whose centre is the container's or nearly
NearSingles ==
    {<<Ball(c, Vec(Sixteenths(v[1]), Sixteenths(v[2])), Radius)>> :
        c \in {Vec(Zero, Zero), Vec(NegZero, Zero), Vec(Zero, NegZero), Vec(NegZero, NegZero),
               Vec(Lit(1), Zero), Vec(Zero, Lit(1))},
        v \in NearVels}

InitKernel ==
    /\ global_time = Zero
    /\ balls \in KernelPairs \cup KernelSingles \cup NearPairs \cup NearSingles
    /\ collisions = <<>>
    /\ pc = "kernel"
    /\ cur = <<>>
    /\ last = <<>>
    /\ result = "none"
    /\ nan_neg \in BOOLEAN
    /\ pipe = NoPipe
    /\ seg = [k \in 1..Len(balls) |-> 0]
    /\ frame = NoFrame
    /\ hist = [Hist0 EXCEPT !.start = balls]

\* the call returns out; the arguments stay in hist.start
KernelReturn(op, out) ==
    /\ pc' = "returned"
    /\ cur' = <<[op |-> op, out |-> out]>>
    /\ hist' = [hist EXCEPT !.last_op = op]
    /\ UNCHANGED <<global_time, collisions, last, nan_neg, pipe, seg, frame>>

\* b1.time_to_collision(&b2)
TimeToCollision ==
    /\ pc = "kernel"
    /\ Len(balls) = 2
    /\ KernelReturn("time_to_collision", time_to_collision(balls[1], balls[2]))
    /\ UNCHANGED <<balls, result>>

\* b.time_to_collision(&container)
TimeToContainerCollision ==
    /\ pc = "kernel"
    /\ Len(balls) = 1
    /\ KernelReturn("time_to_container_collision",
                    time_to_container_collision(balls[1], ContainerRadius))
    /\ UNCHANGED <<balls, result>>

\* the outcome vs of a collide call: Err leaves the balls as they were
Collides(op, vs) ==
    /\ KernelReturn(op, vs)
    /\ IF vs = None
       THEN /\ result' = "IntersectingParticles"
            /\ UNCHANGED balls
       ELSE /\ result' = "Ok"
            /\ balls' = vs[1]

\* b1.collide(&mut b2)
Collide ==
    /\ pc = "kernel"
    /\ Len(balls) = 2
    /\ Collides("collide", set_vels(balls, 1, 2, collide(balls[1], balls[2])))

\* b.collide(&mut container)
ContainerCollide ==
    /\ pc = "kernel"
    /\ Len(balls) = 1
    /\ Collides("container_collide", set_vel(balls, 1, container_collide(balls[1])))

\* data.rs: PreData::from_indices on the balls bs at the time g
PreData_from_indices(bs, g, i, j) ==
    IF j = Container
    THEN [kind |-> "ContainerCollision", time |-> g, index |-> i, pre |-> bs[i]]
    ELSE [kind |-> "BallCollision", time |-> g, indices |-> <<i, j>>, pres |-> <<bs[i], bs[j]>>]

\* data.rs: PostData::from_indices
PostData_from_indices(bs, i, j) ==
    IF j = Container
    THEN [kind |-> "ContainerCollision", post |-> bs[i]]
    ELSE [kind |-> "BallCollision", posts |-> <<bs[i], bs[j]>>]

\* impl From<(PreData, PostData)> for DataEvent; the mixed pairs panic
DataEvent_from(pre, post) ==
    IF pre.kind = "BallCollision" /\ post.kind = "BallCollision"
    THEN Some([kind |-> "BallCollision", time |-> pre.time, indices |-> pre.indices,
               pres |-> pre.pres, posts |-> post.posts])
    ELSE IF pre.kind = "ContainerCollision" /\ post.kind = "ContainerCollision"
    THEN Some([kind |-> "ContainerCollision", time |-> pre.time, index |-> pre.index,
               pre |-> pre.pre, post |-> post.post])
    ELSE None

\* a variant that leaves out the square root
magnitude_unrooted(v) == dot(v, v)

\* FloatVec::magnitude
magnitude(v) == FSqrt(dot(v, v))

\* DataEvent::container_pressure
container_pressure(ev) ==
    IF ev.kind = "BallCollision" THEN None
    ELSE Some(magnitude(VSub(ev.pre.vel, ev.post.vel)))

\* the record of the collision that collide has just computed (the balls
\* before it are hist.start), and its container_pressure()
ContainerPressure ==
    /\ pc = "returned"
    /\ cur[1].op \in {"collide", "container_collide"}
    /\ result = "Ok"
    /\ LET j == IF Len(balls) = 2 THEN 2 ELSE Container
           ev == DataEvent_from(PreData_from_indices(hist.start, global_time, 1, j),
                                PostData_from_indices(balls, 1, j))[1]
       IN  /\ pc' = "measured"
           /\ cur' = <<[op |-> "container_pressure", out |-> container_pressure(ev), ev |-> ev]>>
    /\ hist' = [hist EXCEPT !.last_op = "container_pressure"]
    /\ UNCHANGED <<global_time, balls, collisions, last, result, nan_neg, pipe, seg, frame>>

NextKernel ==
    \/ TimeToCollision
    \/ TimeToContainerCollision
    \/ Collide
    \/ ContainerCollide
    \/ ContainerPressure

SpecKernel == InitKernel /\ [][NextKernel]_vars

----------------------------------------------------------------------------
(* The functions of src/src/dynamics/maths.rs, src/src/simulation/collision.rs
   and src/src/maths.rs called directly on their arguments *)

\* the representable value next to a, away from zero
NextUp(a) ==
    IF a.kind # "fin" THEN a
    ELSE IF a.mag = MaxFinite THEN Inf(a.neg)
    ELSE Fin(a.neg, a.mag + Pow2(Shift(a.mag)))

\* magnitudes at zero, at the top of a binade, at its bottom and at the largest
\* finite value
BitMags ==
    {0, 1, 2, 3, Pow2(MantBits) - 2, Pow2(MantBits) - 1, Pow2(MantBits),
     Pow2(MantBits) + 2, Pow2(MantBits) + 4, MaxFinite - Pow2(MaxShift), MaxFinite}
BitFloats ==
    {Fin(s, m) : s \in BOOLEAN, m \in BitMags} \cup {Inf(s) : s \in BOOLEAN}
        \cup {[kind |-> "nan", neg |-> s, mag |-> 0] : s \in BOOLEAN}
UlpArgs == 0..2

ApproxArgs ==
    {[fn |-> "approx_eq_f64", a |-> a, b |-> b, ulp |-> n] :
        a \in BitFloats, b \in BitFloats, n \in UlpArgs}

\* impl PartialEq for CollisionEvent (collision.rs): eq
CollisionEvent_eq(a, b) == approx_eq_f64(a.t, b.t, 1)

\* impl Ord for CollisionEvent: cmp, as -1 (Less), 0 (Equal), 1 (Greater)
CollisionEvent_cmp(a, b) == total_cmp(a.t, b.t)

\* times of the events compared: the zeros, 1 and the two values after it,
\* infinity and NaN
EventTimes ==
    {Zero, NegZero, One, NextUp(One), NextUp(NextUp(One)), Inf(FALSE),
     [kind |-> "nan", neg |-> FALSE, mag |-> 0]}
EventsCompared ==
    {CollisionEvent(1, Container, t, <<Vec(One, Zero), origin>>, <<>>) : t \in EventTimes}
        \cup {CollisionEvent(1, 2, One, <<Vec(Zero, One), Vec(One, One)>>, <<>>)}
CompareArgs ==
    {[fn |-> "compare", a |-> a, b |-> b, c |-> c] :
        a \in EventsCompared, b \in EventsCompared, c \in EventsCompared}

\* SafeFloat (src/src/maths.rs): SafeNonZero(f) and Zero
SafeNonZero(f) == [tag |-> "SafeNonZero", f |-> f]
SafeZero == [tag |-> "Zero"]

\* impl From<SafeFloat> for f64
SafeFloat_into_f64(sf) == IF sf.tag = "Zero" THEN Zero ELSE sf.f

\* impl TryFrom<f64> for SafeFloat
SafeFloat_try_from(f) ==
    IF IsNaN(f) THEN "FromNanError"
    ELSE IF f.kind = "inf" THEN "FromInfinityError"
    ELSE IF FEq(f, Zero) THEN "FromZeroError"
    ELSE SafeNonZero(f)

\* impl ops::Sub<SafeFloat> for SafeFloat
SafeFloat_sub(self, other) ==
    IF self.tag = "Zero" /\ other.tag = "Zero" THEN SafeZero
    ELSE IF self.tag = "Zero" THEN SafeNonZero(other.f)
    ELSE IF other.tag = "Zero" THEN SafeNonZero(self.f)
    ELSE SafeNonZero(FSub(self.f, other.f))

\* the SafeFloat values subtracted: SafeFloat::zero() and what try_from accepts
SafeFloats ==
    {SafeZero} \cup {SafeFloat_try_from(f) :
        f \in {Lit(1), Lit(-1), One, FNeg(One), Lit(24), Lit(-24), NextUp(One),
               Fin(FALSE, MaxFinite), Fin(TRUE, MaxFinite)}}
SubArgs == {[fn |-> "sub", a |-> a, b |-> b] : a \in SafeFloats, b \in SafeFloats}

MathsArgs == ApproxArgs \cup CompareArgs \cup SubArgs

InitMaths ==
    /\ global_time = Zero
    /\ balls = <<>>
    /\ collisions = <<>>
    /\ pc = "maths"
    /\ cur \in {<<arg>> : arg \in MathsArgs}
    /\ last = <<>>
    /\ result = "none"
    /\ nan_neg \in BOOLEAN
    /\ pipe = NoPipe
    /\ seg = <<>>
    /\ frame = NoFrame
    /\ hist = Hist0

\* the call returns out; the arguments stay in cur
MathsReturn(out) ==
    /\ pc' = "computed"
    /\ cur' = <<[fn |-> cur[1].fn, args |-> cur[1], out |-> out]>>
    /\ UNCHANGED <<global_time, balls, collisions, last, result, nan_neg, pipe, seg, frame, hist>>

ApproxEqF64 ==
    /\ pc = "maths"
    /\ cur[1].fn = "approx_eq_f64"
    /\ MathsReturn(approx_eq_f64(cur[1].a, cur[1].b, cur[1].ulp))

\* a == b and a.cmp(&b), with the comparisons of the other pairs of a, b, c
CompareEvents ==
    /\ pc = "maths"
    /\ cur[1].fn = "compare"
    /\ LET a == cur[1].a
           b == cur[1].b
           c == cur[1].c
       IN  MathsReturn([eq |-> CollisionEvent_eq(a, b), cmp |-> CollisionEvent_cmp(a, b),
                        cmp_ba |-> CollisionEvent_cmp(b, a),
                        cmp_bc |-> CollisionEvent_cmp(b, c),
                        cmp_ac |-> CollisionEvent_cmp(a, c)])

\* a - b
SafeFloatSub ==
    /\ pc = "maths"
    /\ cur[1].fn = "sub"
    /\ MathsReturn(SafeFloat_sub(cur[1].a, cur[1].b))

NextMaths ==
    \/ ApproxEqF64
    \/ CompareEvents
    \/ SafeFloatSub

SpecMaths == InitMaths /\ [][NextMaths]_vars

----------------------------------------------------------------------------
(* py_pressure: src/src/simulation/mod.rs *)

\* the pressures that iter_pressure yields, in sixteenths, and the numbers n
\* and window_width of the calls
PressureValues == {Lit(8), Lit(16), Lit(40)}
PressureCounts == 0..2
WindowWidths == 1..3

\* iter_pressure: the k-th item of the run is (time, pressure), the time of
\* the k-th container collision and the momentum it transfers
iter_pressure_item(k, p) == <<Lit(k * Unit), p>>

RECURSIVE FSum(_)
\* Iterator::sum over f64
FSum(s) == IF s = <<>> THEN Zero ELSE FAdd(FSum(SubSeq(s, 1, Len(s) - 1)), s[Len(s)])

\* pressure(n, window_width) is called
PyPressure(n, window_width) ==
    /\ pc = "idle"
    /\ cur = <<>>
    /\ pc' = "collect"
    /\ cur' = <<[n |-> n, window_width |-> window_width, time_deque |-> <<>>,
                 pressure_deque |-> <<>>, pressure_sum |-> Zero, times |-> <<>>,
                 pressures |-> <<>>, seen |-> <<>>]>>
    /\ result' = "none"
    /\ UNCHANGED <<global_time, balls, collisions, last, nan_neg, pipe, seg, frame, hist>>

\* self.iter_pressure().take(window_width).collect(): one more item, and after
\* the last pressure_sum is pressure_deque.iter().sum()
Collect(p) ==
    /\ pc = "collect"
    /\ LET c == cur[1]
           item == iter_pressure_item(Len(c.seen) + 1, p)
           pd == Append(c.pressure_deque, item[2])
       IN  /\ cur' = <<[c EXCEPT !.time_deque = Append(@, item[1]),
                                 !.pressure_deque = pd,
                                 !.seen = Append(@, item[2]),
                                 !.pressure_sum = IF Len(pd) = c.window_width
                                                  THEN FSum(pd) ELSE @]>>
           /\ pc' = IF Len(pd) = c.window_width THEN "map" ELSE "collect"
    /\ UNCHANGED <<global_time, balls, collisions, last, result, nan_neg, pipe, seg, frame, hist>>

\* the closure of map on the next item of pressure_events.take(n); the two
\* unwraps panic on an empty deque
MapItem(p) ==
    /\ pc = "map"
    /\ Len(cur[1].times) < cur[1].n
    /\ LET c == cur[1]
           item == iter_pressure_item(Len(c.seen) + 1, p)
           time_popped == IF c.time_deque = <<>> THEN <<>> ELSE Tail(c.time_deque)
       IN  IF c.pressure_deque = <<>> \/ time_popped = <<>>
           THEN /\ pc' = "idle"
                /\ result' = "panic"
                /\ cur' = <<[c EXCEPT !.seen = Append(@, item[2])]>>
           ELSE LET old_pressure == Head(c.pressure_deque)
                    pressure_sum == FAdd(FSub(c.pressure_sum, old_pressure), item[2])
                    t_start == Head(time_popped)
                IN  /\ cur' = <<[c EXCEPT !.time_deque = Append(time_popped, item[1]),
                                          !.pressure_deque = Append(Tail(@), item[2]),
                                          !.pressure_sum = pressure_sum,
                                          !.times = Append(@, FSub(item[1], t_start)),
                                          !.pressures = Append(@, pressure_sum),
                                          !.seen = Append(@, item[2])]>>
                    /\ UNCHANGED <<pc, result>>
    /\ UNCHANGED <<global_time, balls, collisions, last, nan_neg, pipe, seg, frame, hist>>

\* take(n) is exhausted: collect, and Ok(dict_map)
PressureDone ==
    /\ pc = "map"
    /\ Len(cur[1].times) = cur[1].n
    /\ pc' = "idle"
    /\ result' = "Ok"
    /\ UNCHANGED <<global_time, balls, collisions, cur, last, nan_neg, pipe, seg, frame, hist>>

NextPressure ==
    \/ \E n \in PressureCounts, w \in WindowWidths : PyPressure(n, w)
    \/ \E p \in PressureValues : Collect(p)
    \/ \E p \in PressureValues : MapItem(p)
    \/ PressureDone

SpecPressure == Init /\ [][NextPressure]_vars

----------------------------------------------------------------------------
(* Properties *)

\* what the program stores of an event (the history field dropped)
Stored(e) == [i |-> e.i, j |-> e.j, t |-> e.t, old_vels |-> e.old_vels]

\* the witness of event e against the balls bs, as the claim states it
WitnessMatches(bs, e) ==
    /\ VEq(bs[e.i].vel, e.old_vels[1])
    /\ VEq(IF e.j = Container THEN origin ELSE bs[e.j].vel, e.old_vels[2])

\* C1: an event popped by next_collision is returned for processing if and
\* only if the current velocities of ball i and of its partner (the origin
\* vector for the container) both equal the event's witness; otherwise it is
\* discarded, the loop goes on, and the event is not the one applied.
C1_FreshnessTest ==
    (pc \in {"next_collision_or_err", "step_until"} /\ last # <<>>) =>
        ((pc = "step_until" /\ cur = <<last[1].ev>>) <=> WitnessMatches(balls, last[1].ev))

\* C1 witness: an event whose first participant still has the recorded velocity
\* but whose partner has not was popped and discarded
C1_Witness ==
    /\ pc = "next_collision_or_err"
    /\ last # <<>>
    /\ VEq(balls[last[1].ev.i].vel, last[1].ev.old_vels[1])
    /\ ~WitnessMatches(balls, last[1].ev)
    /\ cur = <<>>

\* the collision counts of the participants of event e now
SegmentNow(e) == <<seg[e.i], IF e.j = Container THEN 0 ELSE seg[e.j]>>

\* C2: in a run of one initialise followed by step_through_collision calls,
\* every event that passes the freshness test was computed on the current
\* trajectory segment of both participants: neither took part in an applied
\* collision since the event was pushed.
C2_WitnessIdentifiesSegment ==
    (pc = "step_until" /\ hist.inits = 1 /\ hist.late_adds = 0) =>
        cur[1].seg = SegmentNow(cur[1])

\* C2 witness: an event computed before its first participant's latest
\* collisions has been applied
C2_StaleEventApplied ==
    /\ pc = "idle"
    /\ result = "Ok"
    /\ hist.inits = 1
    /\ hist.late_adds = 0
    /\ hist.applied # <<>>
    /\ hist.applied[Len(hist.applied)].seg[1] + 1 < seg[hist.applied[Len(hist.applied)].i]

\* C3: an iteration of next_collision_or_err that finds the queue empty leaves
\* the loop, and step_through_collision returns the simulation-failure error.
C3_QueueUnderflowReported ==
    [][(pc = "next_collision_or_err" /\ collisions = <<>>)
          => (pc' = "idle" /\ result' = "SimulationFailure")]_vars

\* C3 witness: the loop has gone round on the empty queue as often as the model counts
C3_LoopOnEmptyQueue ==
    /\ pc = "next_collision_or_err"
    /\ collisions = <<>>
    /\ hist.spins = MaxSpin

\* C4: every event popped and found fresh has a scheduled time t >= global_time
\* (stated for events whose time is a number), so step_until does not fail.
C4_FreshEventNotInPast ==
    (pc = "step_until" /\ cur[1].t.kind = "fin") => FLe(global_time, cur[1].t)

\* C4 witness: step_through_collision returned the time-regression error
C4_TimeRegression ==
    /\ pc = "idle"
    /\ result = "SimulationFailure"
    /\ hist.manual = 0

\* C5: after a successful step_through_collision, global_time is not below its
\* value on entry and equals the applied event's scheduled time (stated for
\* events whose time is a number).
C5_TimeEqualsEventTime ==
    (pc = "idle" /\ result = "Ok" /\ hist.applied # <<>>
        /\ hist.applied[Len(hist.applied)].t.kind = "fin") =>
        /\ FLe(hist.entry_time, global_time)
        /\ FEq(global_time, hist.applied[Len(hist.applied)].t)

\* C5 witness: an event was applied and global_time is past its scheduled time
C5_TimeOvershoot ==
    /\ pc = "idle"
    /\ result = "Ok"
    /\ hist.applied # <<>>
    /\ FLt(hist.applied[Len(hist.applied)].t, global_time)

\* C6: no public operation, the manual step(t) included, takes global_time
\* from one number to a smaller one.
C6_TimeNeverDecreases ==
    [][(global_time.kind = "fin" /\ global_time'.kind = "fin")
          => FLe(global_time, global_time')]_vars

\* C6 witness: global_time is negative
C6_NegativeTime ==
    /\ global_time.kind = "fin"
    /\ global_time.neg
    /\ global_time.mag > 0

\* C7: when an event has been chosen for application, no event left in the
\* queue that would pass the freshness test is strictly earlier, and no event
\* popped before it in the same call is later than it (in the heap's order).
C7_EarliestFirst ==
    pc = "step_until" =>
        /\ \A k \in 1..Len(collisions) :
              Fresh(balls, collisions[k]) => ~FLt(collisions[k].t, cur[1].t)
        /\ hist.popped_max # None
        /\ total_cmp(hist.popped_max[1], cur[1].t) <= 0

\* C7 witness: an event was chosen after a stale one was discarded in the same
\* call, while a later event that would pass the freshness test waits
C7_Witness ==
    /\ pc = "step_until"
    /\ hist.popped_n >= 2
    /\ \E k \in 1..Len(collisions) :
          Fresh(balls, collisions[k]) /\ FLt(cur[1].t, collisions[k].t)

\* the events initialise is to compute for the balls bs at time g
PairsWithCollision(bs) ==
    {p \in (1..Len(bs)) \X (1..Len(bs)) :
        p[1] < p[2] /\ time_to_collision(bs[p[1]], bs[p[2]]) # None}

BallsWithContainerCollision(bs) ==
    {i \in 1..Len(bs) : time_to_container_collision(bs[i], ContainerRadius) # None}

InitialEvents(bs, g) ==
    {[i |-> p[1], j |-> p[2],
      t |-> FAdd(g, time_to_collision(bs[p[1]], bs[p[2]])[1]),
      old_vels |-> <<bs[p[1]].vel, bs[p[2]].vel>>] : p \in PairsWithCollision(bs)}
    \cup
    {[i |-> i, j |-> Container,
      t |-> FAdd(g, time_to_container_collision(bs[i], ContainerRadius)[1]),
      old_vels |-> <<bs[i].vel, origin>>] : i \in BallsWithContainerCollision(bs)}

\* C8: initialise on an empty queue leaves exactly one event for every pair
\* i < j that has a time to collision and one container event for every ball
\* that has one, each at global_time + ttc with the current velocities as
\* witness, and nothing else.
C8_InitialiseFromEmptyQueue ==
    [][(hist'.inits = hist.inits + 1 /\ collisions = <<>>) =>
          /\ {Stored(collisions'[k]) : k \in 1..Len(collisions')}
                = InitialEvents(balls, global_time)
          /\ Len(collisions') = Cardinality(InitialEvents(balls, global_time))]_vars

\* C8 witness: initialise has run once, on three balls, and left a ball-ball
\* event and three container events
C8_Witness ==
    /\ hist.last_op = "initialise"
    /\ hist.inits = 1
    /\ hist.calls = 0
    /\ Len(balls) = 3
    /\ \E k \in 1..Len(collisions) : collisions[k].j # Container
    /\ Cardinality({k \in 1..Len(collisions) : collisions[k].j = Container}) = 3

\* C9: initialise called right after initialise leaves the queue as it was.
C9_InitialiseIdempotent ==
    [][(hist.last_op = "initialise" /\ hist'.inits = hist.inits + 1)
          => collisions' = collisions]_vars

\* C9 witness: after two initialise calls in a row every event is in the queue twice
C9_DuplicatedEvents ==
    /\ hist.last_op = "initialise"
    /\ hist.inits = 2
    /\ hist.calls = 0
    /\ hist.late_adds = 0
    /\ collisions # <<>>
    /\ \A k \in 1..Len(collisions) :
          \E m \in 1..Len(collisions) : m # k /\ collisions[m] = collisions[k]

\* C10: once initialise has run, no public operation lengthens the ball sequence.
C10_NoBallAddedAfterInitialise ==
    [][hist.inits > 0 => Len(balls') = Len(balls)]_vars

\* C10 witness: a ball added after initialise is in the sequence
C10_BallAddedAfterInitialise ==
    /\ hist.late_adds > 0
    /\ hist.last_op = "add_balls"
    /\ Len(balls) > 0

\* the balls event e involves
Involved(e) == IF e.j = Container THEN {e.i} ELSE {e.i, e.j}

\* the events the queue q holds from position n on, without the history field
StoredFrom(q, n) == {Stored(q[k]) : k \in n..Len(q)}

\* the events to reschedule for ball x among the balls bs at time g
EventsOf(bs, g, x) ==
    {[i |-> x, j |-> k,
      t |-> FAdd(g, time_to_collision(bs[x], bs[k])[1]),
      old_vels |-> <<bs[x].vel, bs[k].vel>>] :
        k \in {m \in 1..Len(bs) : m # x /\ time_to_collision(bs[x], bs[m]) # None}}
    \cup
    {[i |-> x, j |-> Container,
      t |-> FAdd(g, time_to_container_collision(bs[x], ContainerRadius)[1]),
      old_vels |-> <<bs[x].vel, origin>>] :
        k \in {m \in {x} : time_to_container_collision(bs[m], ContainerRadius) # None}}

\* C11: when step_through_collision applies an event, the events pushed are,
\* for each involved ball x, an event (x, k) at global_time + ttc for every
\* other ball k with a time to collision and a container event if one exists,
\* and every event pushed has the velocities after the collision as witness.
C11_Rescheduling ==
    [][(pc = "step_until" /\ result' = "Ok") =>
          /\ \A x \in Involved(cur[1]) :
                EventsOf(balls', global_time', x)
                    \subseteq StoredFrom(collisions', Len(collisions) + 1)
          /\ \A k \in (Len(collisions) + 1)..Len(collisions') :
                collisions'[k].old_vels
                    = <<balls'[collisions'[k].i].vel, PartnerVel(balls', collisions'[k].j)>>
          /\ SubSeq(collisions', 1, Len(collisions)) = collisions]_vars

\* C11 witness: a ball-ball event was applied and the queue holds, computed
\* after it, an event of a participant with a ball of lower index and a
\* container event of a participant
C11_Witness ==
    /\ pc = "idle"
    /\ result = "Ok"
    /\ hist.applied # <<>>
    /\ hist.applied[Len(hist.applied)].j # Container
    /\ \E k \in 1..Len(collisions) :
          /\ collisions[k].i \in Involved(hist.applied[Len(hist.applied)])
          /\ collisions[k].j # Container
          /\ collisions[k].j < collisions[k].i
          /\ collisions[k].seg = SegmentNow(collisions[k])
          /\ collisions[k].t = FAdd(global_time,
                 time_to_collision(balls[collisions[k].i], balls[collisions[k].j])[1])
    /\ \E k \in 1..Len(collisions) :
          /\ collisions[k].i \in Involved(hist.applied[Len(hist.applied)])
          /\ collisions[k].j = Container
          /\ collisions[k].seg = SegmentNow(collisions[k])

\* C12: step_until(t) with t < global_time returns the simulation-failure
\* error and changes neither global_time nor the balls; with t >= global_time
\* it succeeds and leaves global_time equal to t (both times being numbers).
C12_StepUntilReachesT ==
    [][\A t \in StepUntilArgs :
          (StepUntil(t) /\ global_time.kind = "fin") =>
              IF FLt(t, global_time)
              THEN result' = "SimulationFailure" /\ UNCHANGED <<global_time, balls>>
              ELSE result' = "Ok" /\ FEq(global_time', t)]_vars

\* C12 witness: step_until(t) succeeded from a global_time below t and
\* global_time is past t
C12_StepUntilOvershoot ==
    /\ hist.last_op = "step_until"
    /\ result = "Ok"
    /\ global_time.kind = "fin"
    /\ FLt(hist.arg[1], global_time)

\* C13: run_collisions(n) returns Ok only when exactly n events have been
\* applied since it was called, and a step that fails ends it at once: the
\* error is returned and nothing more is popped or applied.
C13_RunCollisions ==
    [][/\ (hist'.last_op = "run_collisions" /\ pc' = "idle" /\ result' = "Ok")
            => Len(hist'.applied) = hist'.run_base + hist'.run_n
       /\ (frame.op = "run_collisions" /\ result' \in {"SimulationFailure", "IntersectingParticles"})
            => (pc' = "idle" /\ frame' = NoFrame /\ hist'.applied = hist.applied
                /\ collisions' = collisions)]_vars

\* C13 witness: run_collisions(2) has returned Ok after two events were
\* applied and at least one stale event was discarded
C13_Witness ==
    /\ hist.last_op = "run_collisions"
    /\ pc = "idle"
    /\ result = "Ok"
    /\ hist.run_n = 2
    /\ Len(hist.applied) = hist.run_base + 2
    /\ hist.popped_n >= 2

\* the state step_through_collision leaves when it applies event e
AppliedBalls(e) ==
    collide_members(step_until(balls, global_time, e.t)[1].balls, e.i, e.j)

AppliedQueue(e) ==
    push_partner(push_collisions(collisions, AppliedBalls(e)[1],
                                 step_until(balls, global_time, e.t)[1].global_time,
                                 Bump(seg, e), e.i),
                 AppliedBalls(e)[1], step_until(balls, global_time, e.t)[1].global_time,
                 Bump(seg, e), e.j)

\* C14: step_with_data makes the transition of step_through_collision: having
\* popped a fresh event it advances to the event time, applies the kernel and
\* reschedules the participants, and it returns a record (here: Ok).
C14_StepWithDataTransition ==
    [][(/\ pc = "step_until"
        /\ frame.op = "step_with_data"
        /\ step_until(balls, global_time, cur[1].t) # None
        /\ AppliedBalls(cur[1]) # None) =>
          /\ result' = "Ok"
          /\ global_time' = step_until(balls, global_time, cur[1].t)[1].global_time
          /\ balls' = AppliedBalls(cur[1])[1]
          /\ collisions' = AppliedQueue(cur[1])]_vars

\* C14 witness: step_with_data has popped a fresh event, advanced to its time
\* and ended in the panic of todo!(), the event neither applied nor rescheduled
C14_StepWithDataPanics ==
    /\ hist.last_op = "step_with_data"
    /\ pc = "idle"
    /\ result = "panic"
    /\ hist.popped_n >= 1
    /\ FLt(hist.entry_time, global_time)

\* step_through_collision as a function of the simulation s = [balls,
\* collisions, global_time], with the events applied so far and ok = FALSE
\* once a call has failed or found no fresh event
RECURSIVE next_collision_or_err(_, _)
next_collision(q, bs, k) ==
    IF Fresh(bs, q[k]) THEN Some([ev |-> q[k], rest |-> Remove(q, k)])
    ELSE next_collision_or_err(Remove(q, k), bs)

next_collision_or_err(q, bs) ==
    IF q = <<>> THEN None
    ELSE next_collision(q, bs, CHOOSE k \in MinIdx(q) : TRUE)

after_collide_members(s, p, g, bs2) ==
    IF bs2 = None THEN [s EXCEPT !.ok = FALSE]
    ELSE [balls |-> bs2[1],
          collisions |-> push_partner(push_collisions(p.rest, bs2[1], g, s.seg, p.ev.i),
                                      bs2[1], g, s.seg, p.ev.j),
          global_time |-> g,
          seg |-> s.seg,
          applied |-> Append(s.applied, Stored(p.ev)),
          ok |-> TRUE]

after_step_until(s, p, st) ==
    IF st = None THEN [s EXCEPT !.ok = FALSE]
    ELSE after_collide_members(s, p, st[1].global_time,
                               collide_members(st[1].balls, p.ev.i, p.ev.j))

after_next_collision(s, p) ==
    IF p = None THEN [s EXCEPT !.ok = FALSE]
    ELSE after_step_until(s, p[1], step_until(s.balls, s.global_time, p[1].ev.t))

step_through_collision(s) ==
    after_next_collision(s, next_collision_or_err(s.collisions, s.balls))

RECURSIVE run_collisions(_, _)
run_collisions(s, n) ==
    IF n = 0 \/ ~s.ok THEN s ELSE run_collisions(step_through_collision(s), n - 1)

\* the simulation initialise leaves for the balls bs at time 0
Initialised(bs) ==
    [balls |-> bs,
     collisions |-> initialise(<<>>, bs, Zero, [k \in 1..Len(bs) |-> 0]),
     global_time |-> Zero,
     seg |-> [k \in 1..Len(bs) |-> 0],
     applied |-> <<>>,
     ok |-> TRUE]

\* the run without injection: n calls of step_through_collision from the
\* balls initialise was called on
Reference(n) == run_collisions(Initialised(hist.start), n)

\* the run so far is add_balls, initialise and calls that all returned Ok
PlainRun ==
    /\ pc = "idle"
    /\ hist.adds = 1
    /\ hist.inits = 1
    /\ hist.late_adds = 0
    /\ hist.manual = 0
    /\ Len(hist.applied) = hist.calls

\* C15: a simulator whose queue received synthetic events that were stale when
\* injected applies the same events (participants and times) and has the same
\* balls as the simulator started from the same balls without injection
\* (stated for the runs from ChaseBalls, where no two fresh events tie and the
\* run without injection is determined by the balls).
C15_StalePopsInert ==
    (PlainRun /\ hist.start = ChaseBalls) =>
        /\ Reference(hist.calls).ok
        /\ Reference(hist.calls).applied
              = [k \in 1..Len(hist.applied) |-> Stored(hist.applied[k])]
        /\ Reference(hist.calls).balls = balls

\* C15 witness: an injected event has been applied
C15_InjectedEventApplied ==
    /\ PlainRun
    /\ hist.start = ChaseBalls
    /\ hist.injected = 1
    /\ \E k \in 1..Len(hist.applied) : hist.applied[k].seg = <<-1, -1>>

\* C16: step_through_collision and run_collisions return no error other than
\* SimulationFailure, whatever the failure originates from.
C16_SingleErrorKind ==
    (pc = "idle" /\ hist.last_op \in {"step_through_collision", "run_collisions"})
        => result \in {"Ok", "SimulationFailure"}

\* C16 witness: the kernel found the centres of two balls coincident and
\* step_through_collision returned IntersectingParticles
C16_IntersectingParticlesReturned ==
    /\ pc = "idle"
    /\ hist.last_op \in {"step_through_collision", "run_collisions"}
    /\ result = "IntersectingParticles"
    /\ Len(balls) >= 2
    /\ approx_eq(balls[1].pos, balls[2].pos, 1)

\* delta * R in sixteenths, the tolerance the containment is stated with
Tolerance == (Signed(delta) * Signed(ContainerRadius)) \div Unit

\* |pos| + r <= R + tol, in exact arithmetic on the stored numbers
InsideWithin(b, tol) ==
    /\ b.pos.x.kind = "fin"
    /\ b.pos.y.kind = "fin"
    /\ Signed(b.r) <= Signed(ContainerRadius) + tol
    /\ Sq(Signed(b.pos.x)) + Sq(Signed(b.pos.y))
          <= Sq(Signed(ContainerRadius) + tol - Signed(b.r))

\* C17: in a run that adds balls lying inside the container, calls initialise
\* and then only step_through_collision or run_collisions, every ball has
\* |pos| + r <= R, within delta * R, at every state between calls.
C17_Containment ==
    (pc = "idle" /\ hist.inits = 1 /\ hist.late_adds = 0 /\ hist.manual = 0) =>
        \A k \in 1..Len(balls) : InsideWithin(balls[k], Tolerance)

\* C17 witness: a ball that was inside has no position left after a call
C17_PositionLost ==
    /\ pc = "idle"
    /\ hist.inits = 1
    /\ hist.late_adds = 0
    /\ hist.manual = 0
    /\ hist.calls > 0
    /\ \E k \in 1..Len(balls) :
          /\ InsideWithin(hist.start[k], 0)
          /\ IsNaN(balls[k].pos.x)

\* the sum over balls of |vel|^2, in exact arithmetic on the stored numbers
RECURSIVE EnergyUpTo(_, _)
EnergyUpTo(bs, k) ==
    IF k = 0 THEN 0
    ELSE EnergyUpTo(bs, k - 1) + Sq(Signed(bs[k].vel.x)) + Sq(Signed(bs[k].vel.y))

Energy(bs) == EnergyUpTo(bs, Len(bs))

FiniteVels(bs) ==
    \A k \in 1..Len(bs) : bs[k].vel.x.kind = "fin" /\ bs[k].vel.y.kind = "fin"

\* the step in which collide_members applies the event cur[1], whose time is a
\* number, to balls whose velocities are numbers
NumericEventApplied ==
    /\ pc = "step_until"
    /\ Len(hist'.applied) = Len(hist.applied) + 1
    /\ cur[1].t.kind = "fin"
    /\ FiniteVels(balls)

\* the share of the energy the kernels' rounding may move, as 1 / EnergyParts,
\* at the width of the model
EnergyParts == 8

RECURSIVE MomentumUpTo(_, _)
MomentumUpTo(bs, k) ==
    IF k = 0 THEN <<0, 0>>
    ELSE <<MomentumUpTo(bs, k - 1)[1] + Signed(bs[k].vel.x),
           MomentumUpTo(bs, k - 1)[2] + Signed(bs[k].vel.y)>>

Momentum(bs) == MomentumUpTo(bs, Len(bs))

\* the sum over balls of |vel.x| + |vel.y|, the scale the rounding is measured on
RECURSIVE SpeedUpTo(_, _)
SpeedUpTo(bs, k) ==
    IF k = 0 THEN 0
    ELSE SpeedUpTo(bs, k - 1) + bs[k].vel.x.mag + bs[k].vel.y.mag

Speed(bs) == SpeedUpTo(bs, Len(bs))

\* |p - q|, summed over the two components
Drift(p, q) == Abs(p[1] - q[1]) + Abs(p[2] - q[2])

\* the share of the speed the kernel's rounding may move, as 1 / MomentumParts,
\* at the width of the model
MomentumParts == 8

HeadOnFirst == Sixteenths(24)

\* a run of the two-ball scenario: HeadOnBalls added once, initialise once, then
\* step_through_collision or run_collisions only, every call having returned Ok
HeadOnRun == PlainRun /\ hist.start = HeadOnBalls

\* the first applied event of the scenario and the velocities it leaves
HeadOnFirstEvent ==
    /\ hist.applied[1].i = 1
    /\ hist.applied[1].j = 2
    /\ FEq(hist.applied[1].t, HeadOnFirst)
    /\ hist.calls = 1 =>
          /\ VEq(balls[1].vel, HeadOnBalls[2].vel)
          /\ VEq(balls[2].vel, HeadOnBalls[1].vel)

\* C20: in the two-ball scenario (positions -R/2 and R/2 on the x axis, equal and
\* opposite speeds, at the scale of the model) the first applied event is the
\* ball-ball event at the time t1 of contact, leaving the velocities swapped,
\* and the second applied event is a container event of one of the balls at
\* t1 + 2 t1 = 3 t1, within the delta tolerance: the wall is twice as far from
\* the place of contact as the balls travelled to it.
C20_TwoBallScenario ==
    (HeadOnRun /\ hist.calls >= 1) =>
        /\ HeadOnFirstEvent
        /\ hist.calls >= 2 =>
              /\ hist.applied[2].j = Container
              /\ hist.applied[2].t.kind = "fin"
              /\ Abs(Signed(hist.applied[2].t) - 3 * Signed(HeadOnFirst)) * Unit
                    <= Signed(delta) * 3 * Signed(HeadOnFirst)

\* C20 as stated: the second applied event is a container event at t1 + t1
C20_SecondEventAtTwiceFirst ==
    (HeadOnRun /\ hist.calls >= 1) =>
        /\ HeadOnFirstEvent
        /\ hist.calls >= 2 =>
              /\ hist.applied[2].j = Container
              /\ FEq(hist.applied[2].t, FAdd(HeadOnFirst, HeadOnFirst))

\* C20 witness: two calls have returned, the second having applied a container event
C20_Witness ==
    /\ HeadOnRun
    /\ hist.calls = 2
    /\ hist.applied[1].j = 2
    /\ hist.applied[2].j = Container
    /\ FLt(FAdd(HeadOnFirst, HeadOnFirst), hist.applied[2].t)

----------------------------------------------------------------------------
(* The kernel *)

\* self.pos - other.pos and self.vel - other.vel of a pair, in exact arithmetic
RelPos(bs) == <<Signed(bs[1].pos.x) - Signed(bs[2].pos.x),
                Signed(bs[1].pos.y) - Signed(bs[2].pos.y)>>
RelVel(bs) == <<Signed(bs[1].vel.x) - Signed(bs[2].vel.x),
                Signed(bs[1].vel.y) - Signed(bs[2].vel.y)>>

Norm2(v) == Sq(v[1]) + Sq(v[2])
IsSquare(n) == Sq(ISqrt(n)) = n

\* centres and relative velocity on one line, the balls apart and approaching;
\* the centre distance and the closing speed are rational
CollinearApproaching(bs) ==
    /\ RelPos(bs)[1] * RelVel(bs)[2] - RelPos(bs)[2] * RelVel(bs)[1] = 0
    /\ RelPos(bs)[1] * RelVel(bs)[1] + RelPos(bs)[2] * RelVel(bs)[2] < 0
    /\ IsSquare(Norm2(RelPos(bs)))
    /\ IsSquare(Norm2(RelVel(bs)))
    /\ ISqrt(Norm2(RelPos(bs))) > Signed(bs[1].r) + Signed(bs[2].r)

\* (centre distance - (r1 + r2)) / closing speed, rounded once
ClosedFormTime(bs) ==
    Rounded(FALSE,
            Unit * (ISqrt(Norm2(RelPos(bs))) - Signed(bs[1].r) - Signed(bs[2].r)),
            ISqrt(Norm2(RelVel(bs))))

\* the tolerance of the test time_to_collision: approx_eq_f64(ttc, 0.8, 1)
TimeUlps == 1

CollinearTimeReturned ==
    /\ pc = "returned"
    /\ cur[1].op = "time_to_collision"
    /\ CollinearApproaching(hist.start)

QuadraticOf(bs) ==
    IF Len(bs) = 2
    THEN [dr |-> VSub(bs[1].pos, bs[2].pos), dv |-> VSub(bs[1].vel, bs[2].vel),
          rr |-> FAdd(bs[1].r, bs[2].r)]
    ELSE [dr |-> bs[1].pos, dv |-> bs[1].vel, rr |-> FSub(bs[1].r, ContainerRadius)]

\* lhs and rhs of `if lhs < rhs`, and the two roots r1 and r2
QuadLhs(a) == FMul(FMul(dot(a.dv, a.dv), a.rr), a.rr)
QuadRhs(a) == cross_squared(a.dr, a.dv)
SqrtDisc(a) == FSqrt(FSub(QuadLhs(a), QuadRhs(a)))
RootR1(a) == FDiv(FNeg(FAdd(dot(a.dv, a.dr), SqrtDisc(a))), dot(a.dv, a.dv))
RootR2(a) == FDiv(FNeg(FSub(dot(a.dv, a.dr), SqrtDisc(a))), dot(a.dv, a.dv))

StrictlyPositive(x) == FLt(Zero, x)

\* the selection as the claim states it
SelectedRoot(a) ==
    IF FLt(QuadLhs(a), QuadRhs(a)) THEN None
    ELSE IF StrictlyPositive(RootR1(a)) /\ StrictlyPositive(RootR2(a))
         THEN Some(IF FLt(RootR2(a), RootR1(a)) THEN RootR2(a) ELSE RootR1(a))
    ELSE IF StrictlyPositive(RootR1(a)) THEN Some(RootR1(a))
    ELSE IF StrictlyPositive(RootR2(a)) THEN Some(RootR2(a))
    ELSE None

ZeroRelativeVelocity(a) == FEq(a.dv.x, Zero) /\ FEq(a.dv.y, Zero)

TimeReturned ==
    /\ pc = "returned"
    /\ cur[1].op \in {"time_to_collision", "time_to_container_collision"}

\* C22: time_to_collision, for a ball and for the container, returns no contact
\* when the discriminant is negative, otherwise the smaller root if it is
\* strictly positive, else the larger root if that is strictly positive, else
\* no contact; a value returned is strictly positive, and zero relative
\* velocity yields no contact.
C22_RootSelection ==
    TimeReturned =>
        /\ cur[1].out = SelectedRoot(QuadraticOf(hist.start))
        /\ cur[1].out # None => StrictlyPositive(cur[1].out[1])
        /\ ZeroRelativeVelocity(QuadraticOf(hist.start)) => cur[1].out = None

\* C22 witness: a contact at a time that is no number is returned for a pair
\* at rest relative to each other
C22_NaNTimeReturned ==
    /\ TimeReturned
    /\ Len(hist.start) = 2
    /\ ZeroRelativeVelocity(QuadraticOf(hist.start))
    /\ cur[1].out # None
    /\ IsNaN(cur[1].out[1])

\* the components of the velocity v along the vector d and across it, times |d|,
\* in exact arithmetic
Along(v, d) == Signed(v.x) * d[1] + Signed(v.y) * d[2]
Across(v, d) == Signed(v.x) * d[2] - Signed(v.y) * d[1]

\* the share of the speeds the kernels' rounding may move a component by, as
\* 1 / KernelParts, at the width of the model
KernelParts == 8

\* the components a and b (times |d|) agree within that share of the speeds of bs
CloseOn(a, b, d, bs) == Sq(KernelParts * (a - b)) <= Sq(Speed(bs)) * Norm2(d)

CollideReturnedOk ==
    /\ pc = "returned"
    /\ cur[1].op = "collide"
    /\ result = "Ok"

\* the centres on the x axis and both velocities along it
HeadOnAlongAxis(bs) ==
    /\ RelPos(bs)[2] = 0
    /\ FEq(bs[1].vel.y, Zero)
    /\ FEq(bs[2].vel.y, Zero)

\* C23: collide gives each ball the other's velocity component along the line
\* of centres and leaves each ball its own component across it (within the
\* rounding of the arithmetic, one part in KernelParts of the speeds at this
\* width); for a head-on contact along the x axis the velocities are swapped.
\* (Stated for centres that differ, which have a line of centres.)
C23_BallKernel ==
    (CollideReturnedOk /\ RelPos(balls) # <<0, 0>>) =>
        /\ FiniteVels(balls)
        /\ CloseOn(Along(balls[1].vel, RelPos(balls)), Along(hist.start[2].vel, RelPos(balls)),
                   RelPos(balls), hist.start)
        /\ CloseOn(Along(balls[2].vel, RelPos(balls)), Along(hist.start[1].vel, RelPos(balls)),
                   RelPos(balls), hist.start)
        /\ CloseOn(Across(balls[1].vel, RelPos(balls)), Across(hist.start[1].vel, RelPos(balls)),
                   RelPos(balls), hist.start)
        /\ CloseOn(Across(balls[2].vel, RelPos(balls)), Across(hist.start[2].vel, RelPos(balls)),
                   RelPos(balls), hist.start)
        /\ HeadOnAlongAxis(hist.start) =>
              /\ VEq(balls[1].vel, hist.start[2].vel)
              /\ VEq(balls[2].vel, hist.start[1].vel)
        /\ \A k \in 1..2 : balls[k].pos = hist.start[k].pos /\ balls[k].r = hist.start[k].r

\* C23 witness: collide returned for two balls off the axes with different
\* components along and across the line of centres
C23_Witness ==
    /\ CollideReturnedOk
    /\ RelPos(balls)[1] # 0
    /\ RelPos(balls)[2] # 0
    /\ Along(hist.start[1].vel, RelPos(balls)) # Along(hist.start[2].vel, RelPos(balls))
    /\ Across(hist.start[1].vel, RelPos(balls)) # Across(hist.start[2].vel, RelPos(balls))
    /\ ~VEq(balls[1].vel, hist.start[1].vel)

\* the centre of a ball as a vector from the origin, in exact arithmetic
Centre(b) == <<Signed(b.pos.x), Signed(b.pos.y)>>

ContainerCollideReturnedOk ==
    /\ pc = "returned"
    /\ cur[1].op = "container_collide"
    /\ result = "Ok"

\* C24: collide with the container reverses the ball's velocity component along
\* the line from the origin to its centre and leaves the component across it
\* (within the rounding of the arithmetic, one part in KernelParts of the speed
\* at this width); a ball on the x axis moving along it leaves with its
\* velocity reversed, (1,0) becoming (-1,0). (Stated for a centre off the origin.)
C24_ContainerKernel ==
    (ContainerCollideReturnedOk /\ Centre(balls[1]) # <<0, 0>>) =>
        /\ FiniteVels(balls)
        /\ CloseOn(Along(balls[1].vel, Centre(balls[1])),
                   -Along(hist.start[1].vel, Centre(balls[1])), Centre(balls[1]), hist.start)
        /\ CloseOn(Across(balls[1].vel, Centre(balls[1])),
                   Across(hist.start[1].vel, Centre(balls[1])), Centre(balls[1]), hist.start)
        /\ (Centre(balls[1])[2] = 0 /\ FEq(hist.start[1].vel.y, Zero)) =>
              VEq(balls[1].vel, FNegVec(hist.start[1].vel))
        /\ balls[1].pos = hist.start[1].pos
        /\ balls[1].r = hist.start[1].r

\* C24 witness: a ball at the wall on the x axis with vel (1,0) leaves with (-1,0)
C24_Witness ==
    /\ ContainerCollideReturnedOk
    /\ Centre(balls[1]) = <<Signed(ContainerRadius) - Signed(Radius), 0>>
    /\ VEq(hist.start[1].vel, Vec(One, Zero))
    /\ VEq(balls[1].vel, Vec(FNeg(One), Zero))

----------------------------------------------------------------------------
(* step *)

\* the step in which step(t) is executed on balls and a time that are numbers
StepExecuted ==
    /\ hist'.last_op = "step"
    /\ hist'.manual = hist.manual + 1
    /\ global_time.kind = "fin"
    /\ FiniteVels(balls)
    /\ \A k \in 1..Len(balls) : balls[k].pos.x.kind = "fin" /\ balls[k].pos.y.kind = "fin"

\* the argument of the step being executed, in sixteenths
StepArg == Signed(hist'.arg[1])

\* t * (1 - delta), in sixteenths times Unit
ShrunkArg == StepArg * (Unit - Signed(delta))

\* the spacing of the representable magnitudes at the magnitude m
Ulp(m) == Pow2(Shift(m))

\* a coordinate goes from p to q under the velocity component v: q - p is
\* v * (1 - delta) * t, exactly when the products and the sum are representable,
\* and otherwise within the three roundings of the computation (half a
\* spacing each, at t * (1 - delta), at the product and at the sum)
Advanced(p, q, v) ==
    /\ q.kind = "fin"
    /\ 2 * Abs(Unit * Unit * (Signed(q) - Signed(p)) - Signed(v) * ShrunkArg)
          <= Unit * Unit * Ulp(q.mag)
             + Unit * Unit * Ulp(Abs(Signed(v) * ShrunkArg) \div (Unit * Unit) + 1)
             + v.mag * Unit * Ulp(Abs(StepArg))
    /\ (/\ ShrunkArg % Unit = 0
        /\ Abs(ShrunkArg) \div Unit < Pow2(MantBits)
        /\ (Signed(v) * ShrunkArg) % (Unit * Unit) = 0
        /\ Abs(Signed(p) + (Signed(v) * ShrunkArg) \div (Unit * Unit)) < Pow2(MantBits))
          => Unit * Unit * (Signed(q) - Signed(p)) = Signed(v) * ShrunkArg

\* C25: step(t) advances every ball's position by vel * (1 - delta) * t and
\* global_time by t (the sum global_time + t, rounded once), and leaves every
\* velocity, every radius, the number of balls and the event queue unchanged.
C25_Step ==
    [][StepExecuted =>
          /\ Len(balls') = Len(balls)
          /\ \A k \in 1..Len(balls) :
                /\ Advanced(balls[k].pos.x, balls'[k].pos.x, balls[k].vel.x)
                /\ Advanced(balls[k].pos.y, balls'[k].pos.y, balls[k].vel.y)
                /\ balls'[k].vel = balls[k].vel
                /\ balls'[k].r = balls[k].r
          /\ FEq(global_time', Rounded(Signed(global_time) + StepArg < 0,
                                       Abs(Signed(global_time) + StepArg), 1))
          /\ collisions' = collisions]_vars

\* C25 witness: step(1) was executed after a collision, with events in the
\* queue, and moved a ball of speed 1 by 1 - delta
C25_Witness ==
    /\ hist.last_op = "step"
    /\ hist.arg = Some(One)
    /\ hist.calls > 0
    /\ collisions # <<>>
    /\ FEq(global_time, FAdd(hist.applied[Len(hist.applied)].t, One))
    /\ \E k \in 1..Len(balls) : VEq(balls[k].vel, Vec(FNeg(One), Zero))

----------------------------------------------------------------------------
(* The life of an event *)

\* the step that pops an event in next_collision
Popping == pc = "next_collision_or_err" /\ collisions # <<>>

\* the step that handles the fresh event cur[1]: step_until, collide_members,
\* push_collisions
Handling == pc = "step_until"

\* the popped event left the queue, and it alone
PoppedOnce ==
    \E k \in 1..Len(collisions) :
        /\ collisions[k] = last'[1].ev
        /\ collisions' = Remove(collisions, k)

\* POPPED, STALE -> DISCARDED: the loop goes on without the event
Discarded ==
    /\ pc' = "next_collision_or_err"
    /\ cur' = <<>>
    /\ balls' = balls
    /\ global_time' = global_time
    /\ hist'.applied = hist.applied

\* POPPED, FRESH -> APPLIED: the event is among the applied ones, and the
\* queue has only gained events
AppliedNow ==
    /\ hist'.applied = Append(hist.applied, cur[1])
    /\ Len(collisions') >= Len(collisions)
    /\ SubSeq(collisions', 1, Len(collisions)) = collisions

\* C26: an event in the queue leaves it by one pop, which takes it alone; a
\* popped event that is stale is discarded, and one that is fresh is applied;
\* neither is put back.
C26_EventLifeCycle ==
    [][/\ Popping =>
             /\ PoppedOnce
             /\ IF last'[1].fresh
                THEN pc' = "step_until" /\ cur' = <<last'[1].ev>> /\ balls' = balls
                ELSE Discarded
       /\ Handling => AppliedNow]_vars

\* C26 witness: a call returned the failure of step_until: the event it had
\* popped and found fresh was neither applied nor discarded as stale
C26_FreshEventLost ==
    /\ pc = "idle"
    /\ result = "SimulationFailure"
    /\ hist.inits = 1
    /\ hist.late_adds = 0
    /\ hist.popped_n > 0
    /\ hist.calls > Len(hist.applied)
    /\ collisions # <<>>

\* every event of the queue p is in the queue q, in its place
KeptIn(p, q) == Len(p) <= Len(q) /\ SubSeq(q, 1, Len(p)) = p

\* C27: no operation removes an event from the queue except the pop of
\* next_collision, which removes one: applying a collision and rescheduling,
\* step, step_until, add_balls and initialise leave every event, stale ones
\* included, where it is.
C27_NoEagerRemoval ==
    [][IF Popping
       THEN Len(collisions') = Len(collisions) - 1
       ELSE KeptIn(collisions, collisions')]_vars

\* C27 witness: after an applied collision and its rescheduling the queue still
\* holds an event scheduled for a participant before it, which is stale
C27_Witness ==
    /\ pc = "idle"
    /\ result = "Ok"
    /\ hist.applied # <<>>
    /\ \E k \in 1..Len(collisions) :
          /\ ~Fresh(balls, collisions[k])
          /\ hist.applied[Len(hist.applied)].i \in Involved(collisions[k])
          /\ collisions[k].seg[1] < seg[collisions[k].i]

\* the step in which step_through_collision applies the event cur[1] and returns Ok
EventApplied ==
    /\ pc = "step_until"
    /\ hist'.applied = Append(hist.applied, cur[1])

\* C28: a successful step_through_collision changes the velocity of no ball
\* but the participants of the applied event; every radius and the number and
\* order of the balls stay, and the positions are those step_until left: the
\* kernel changes no position.
C28_FrameOfAppliedEvent ==
    [][EventApplied =>
          /\ Len(balls') = Len(balls)
          /\ \A k \in 1..Len(balls) :
                /\ balls'[k].r = balls[k].r
                /\ k \notin Involved(cur[1]) => balls'[k].vel = balls[k].vel
                /\ balls'[k].pos = step_until(balls, global_time, cur[1].t)[1].balls[k].pos]_vars

\* C28 witness: the first call applied a ball-ball event among three balls; the
\* third ball moved on with its velocity, the two participants have new ones
C28_Witness ==
    /\ PlainRun
    /\ hist.calls = 1
    /\ Len(balls) = 3
    /\ hist.applied[1].j # Container
    /\ \E k \in 1..3 :
          /\ k \notin Involved(hist.applied[1])
          /\ balls[k].vel = hist.start[k].vel
          /\ balls[k].pos # hist.start[k].pos
    /\ \A k \in Involved(hist.applied[1]) : ~VEq(balls[k].vel, hist.start[k].vel)

\* the event e names a ball, and as partner the container or another ball
DistinctParticipants(e) ==
    /\ e.i \in 1..Len(balls)
    /\ e.j # Container => (e.j \in 1..Len(balls) /\ e.j # e.i)

\* C29: every event in the queue, and the event being applied, names a ball of
\* the simulation and, when its partner is a ball, another ball of the
\* simulation: assert_ne!(i, j) in collide_by_index does not fail.
C29_DistinctIndices ==
    /\ \A k \in 1..Len(collisions) : DistinctParticipants(collisions[k])
    /\ \A k \in 1..Len(cur) : DistinctParticipants(cur[k])

\* C29 witness: a ball-ball event pushed by push_collisions for the later ball
\* of a pair is being applied
C29_Witness ==
    /\ pc = "step_until"
    /\ cur[1].j # Container
    /\ cur[1].j < cur[1].i
    /\ hist.calls > 1

\* a participant of the event being applied leaves the step with another velocity
VelocityChanged == \E k \in Involved(cur[1]) : ~VEq(balls'[k].vel, balls[k].vel)

\* the places of the queue q that hold an event for a participant of the event e
ScheduledFor(q, e) == {k \in 1..Len(q) : Involved(q[k]) \cap Involved(e) # {}}

\* C30: every applied collision changes the velocity of one of its participants
\* at least, the glancing contact at transverse offset r1 + r2 included, and
\* every event the queue held for those participants before the collision
\* fails the freshness test after it.
C30_VelocityChangeInvalidates ==
    [][EventApplied =>
          /\ VelocityChanged
          /\ \A k \in ScheduledFor(collisions, cur[1]) :
                ~Fresh(balls', collisions[k])]_vars

\* C30 witness: after an applied collision the queue holds an event for one of
\* its participants that was computed before that collision and passes the
\* freshness test
C30_EarlierEventFreshAgain ==
    /\ PlainRun
    /\ hist.applied # <<>>
    /\ \E k \in ScheduledFor(collisions, hist.applied[Len(hist.applied)]) :
          /\ collisions[k].seg # SegmentNow(collisions[k])
          /\ Fresh(balls, collisions[k])

-----------------------------------------------------------------------------
(* Stale pops *)

\* the queue q holds an event that passes the freshness test
FreshIn(q) == \E k \in 1..Len(q) : Fresh(balls, q[k])

\* step_through_collision has been entered on a queue that holds a fresh event
EnteredWithFresh == pc = "next_collision_or_err" /\ hist.popped_n = 0 /\ FreshIn(collisions)

\* C31: a stale pop is no error, the loop pops again; a call of
\* step_through_collision on a queue that holds a fresh event terminates, and
\* it ends with Ok and one more applied event: the first fresh one, the events
\* popped before it discarded.
C31_StalePopsHarmless ==
    /\ [][(Popping /\ ~last'[1].fresh) => (Discarded /\ result' = result)]_vars
    /\ \A c \in 1..MaxSteps :
          (EnteredWithFresh /\ hist.calls = c)
              ~> ((hist.calls = c /\ pc = "idle") \/ hist.calls > c)
    /\ \A n \in 0..MaxSteps :
          (EnteredWithFresh /\ Len(hist.applied) = n)
              ~> (Len(hist.applied) = n + 1 /\ result = "Ok")

\* C31 witness: a call entered on a queue with a fresh event has ended with
\* the failure of step_until: the fresh event it popped lies before global_time
C31_FreshEventNotApplied ==
    /\ pc = "idle"
    /\ result = "SimulationFailure"
    /\ hist.inits = 1
    /\ hist.late_adds = 0
    /\ hist.popped_max # None
    /\ FLt(hist.popped_max[1], global_time)

-----------------------------------------------------------------------------
(* Failure *)

Least(m, n) == IF m < n THEN m ELSE n

\* the values a and b are equal or neighbours among the representable values
WithinOneUlp(a, b) == Abs(Signed(a) - Signed(b)) <= Ulp(Least(a.mag, b.mag))

\* the centres p and q coincide to within 1 ULP in each coordinate
SameCentre(p, q) == WithinOneUlp(p.x, q.x) /\ WithinOneUlp(p.y, q.y)

\* the participants of the kernel call on bs (two balls, or a ball and the
\* container) have coinciding centres
CentresCoincide(bs) == SameCentre(bs[1].pos, IF Len(bs) = 2 THEN bs[2].pos ELSE origin)

\* collide has returned
KernelCollided == pc = "returned" /\ cur[1].op \in {"collide", "container_collide"}

\* C32: when the centres of the two participants coincide to within 1 ULP,
\* collide returns the error and leaves both velocities as they were.
C32_ErrorOnCoincidingCentres ==
    (KernelCollided /\ CentresCoincide(hist.start)) =>
        (result = "IntersectingParticles" /\ balls = hist.start)

\* C32 witness: collide returned Ok for two participants whose centres are
\* equal, a zero coordinate having the other sign, and left velocities that
\* are not numbers
C32_CoincidingCentresCollided ==
    /\ KernelCollided
    /\ result = "Ok"
    /\ VEq(hist.start[1].pos, IF Len(balls) = 2 THEN hist.start[2].pos ELSE origin)
    /\ IsNaN(balls[1].vel.x)

-----------------------------------------------------------------------------
(* DataEvent *)

\* container_pressure has returned for a record whose velocities are numbers
PressureReturned ==
    /\ pc = "measured"
    /\ FiniteVels(hist.start)
    /\ FiniteVels(balls)

\* the share of a magnitude its computation may be off by, as 1 / PressureParts,
\* at the width of the model
PressureParts == 8

\* the value m is the length of the vector d (both in sixteenths), within
\* that share of the length and one sixteenth
IsLengthOf(m, d) ==
    /\ m.kind = "fin"
    /\ ~m.neg
    /\ m.mag <= 1 \/ Sq(PressureParts * (m.mag - 1)) <= Sq(PressureParts + 1) * Norm2(d)
    /\ Sq(PressureParts * (m.mag + 1)) >= Sq(PressureParts - 1) * Norm2(d)

\* C33: container_pressure returns None for a ball-ball record and, for a
\* container record, the magnitude of the ball's velocity before the collision
\* minus its velocity after it (as f64 computes it: exactly for a ball
\* reflected along an axis, (1,0) to (-1,0) giving 2).
C33_ContainerPressure ==
    PressureReturned =>
        IF cur[1].ev.kind = "BallCollision"
        THEN cur[1].out = None
        ELSE /\ cur[1].out # None
             /\ cur[1].ev.pre = hist.start[1]
             /\ cur[1].ev.post = balls[1]
             /\ IsLengthOf(cur[1].out[1],
                           <<Signed(hist.start[1].vel.x) - Signed(balls[1].vel.x),
                             Signed(hist.start[1].vel.y) - Signed(balls[1].vel.y)>>)
             /\ (FEq(hist.start[1].vel.y, Zero) /\ FEq(balls[1].vel.y, Zero)) =>
                   Signed(cur[1].out[1])
                       = Abs(Signed(hist.start[1].vel.x) - Signed(balls[1].vel.x))

\* C33 witness: the record of a ball reflected at the wall from (1,0) to (-1,0)
\* has the pressure 2
C33_Witness ==
    /\ PressureReturned
    /\ cur[1].ev.kind = "ContainerCollision"
    /\ VEq(cur[1].ev.pre.vel, Vec(One, Zero))
    /\ VEq(cur[1].ev.post.vel, Vec(FNeg(One), Zero))
    /\ cur[1].out = Some(Lit(2 * Unit))

\* the consumer has taken, in the order sent and once each, a prefix of what the
\* loop sent, and the rest is in the channel
InOrderOnce == pipe.sent = pipe.data \o pipe.raw

Computed(fn) == pc = "computed" /\ cur[1].fn = fn

\* the distance of the bit patterns of a and b read as unsigned integers
BitDistance(a, b) == Abs(to_bits(a) - to_bits(b))

\* b is the value next to the finite a on the side away from zero, and two away
Adjacent(a, b) == a.kind = "fin" /\ b = NextUp(a)
TwoApart(a, b) == a.kind = "fin" /\ NextUp(a).kind = "fin" /\ b = NextUp(NextUp(a))

\* C35: approx_eq_f64(a, b, n) is true exactly when the bit patterns of a and b
\* read as unsigned integers differ by at most n; of two values of one sign, the
\* adjacent ones are equal at tolerance 1 and the ones two steps apart are not.
C35_UlpEquality ==
    Computed("approx_eq_f64") =>
        LET a == cur[1].args.a
            b == cur[1].args.b
            n == cur[1].args.ulp
        IN  /\ cur[1].out <=> (BitDistance(a, b) <= n)
            /\ ((Adjacent(a, b) \/ Adjacent(b, a)) /\ n = 1) => cur[1].out
            /\ ((TwoApart(a, b) \/ TwoApart(b, a)) /\ n = 1) => ~cur[1].out

\* the top of a binade and the bottom of the next are equal at tolerance 1
C35_AdjacentEqual ==
    /\ Computed("approx_eq_f64")
    /\ cur[1].args.ulp = 1
    /\ Adjacent(cur[1].args.a, cur[1].args.b)
    /\ Shift(cur[1].args.a.mag) # Shift(cur[1].args.b.mag)
    /\ cur[1].out

\* C39: a == b holds exactly when cmp(a, b) is Equal, and the order by t is a
\* total order (any two events are comparable, with opposite results in the two
\* directions, and the order is transitive).
C39_EqConsistentWithOrd ==
    Computed("compare") =>
        LET out == cur[1].out
        IN  /\ out.eq <=> (out.cmp = 0)
            /\ out.cmp_ba = -out.cmp
            /\ (out.cmp <= 0 /\ out.cmp_bc <= 0) => out.cmp_ac <= 0

\* two events whose times are adjacent values: equal by ==, Less by cmp
C39_EqualButOrdered ==
    /\ Computed("compare")
    /\ Adjacent(cur[1].args.a.t, cur[1].args.b.t)
    /\ cur[1].out.eq
    /\ cur[1].out.cmp = -1

\* C40: the value of a - b is the value of a minus the value of b, for all
\* SafeFloat a and b; in particular Zero - x is -x.
C40_SubAgrees ==
    Computed("sub") =>
        /\ FEq(SafeFloat_into_f64(cur[1].out),
               FSub(SafeFloat_into_f64(cur[1].args.a), SafeFloat_into_f64(cur[1].args.b)))
        /\ cur[1].args.a = SafeZero =>
               FEq(SafeFloat_into_f64(cur[1].out), FNeg(SafeFloat_into_f64(cur[1].args.b)))

\* Zero - 1 has returned 1
C40_ZeroMinusOne ==
    /\ Computed("sub")
    /\ cur[1].args.a = SafeZero
    /\ cur[1].args.b = SafeNonZero(One)
    /\ cur[1].out = SafeNonZero(One)

\* between calls, in a run of initialise and calls of step_through_collision
\* with no ball added after initialise and no other advance of the time
BetweenCalls == pc = "idle" /\ hist.inits >= 1 /\ hist.late_adds = 0 /\ hist.manual = 0

Moving(b) == ~(FEq(balls[b].vel.x, Zero) /\ FEq(balls[b].vel.y, Zero))

\* the queue holds a container event of ball b whose witness is its velocity
HasWallEvent(b) ==
    \E k \in 1..Len(collisions) :
        /\ collisions[k].i = b
        /\ collisions[k].j = Container
        /\ VEq(collisions[k].old_vels[1], balls[b].vel)

\* C36: between the calls of a run of initialise and step_through_collision
\* every ball that moves has a container event in the queue whose witness is
\* its current velocity, and so the queue holds a fresh event while a ball moves.
C36_WallEventQueued ==
    BetweenCalls =>
        /\ \A b \in 1..Len(balls) : Moving(b) => HasWallEvent(b)
        /\ (\E b \in 1..Len(balls) : Moving(b)) => FreshIn(collisions)

\* a call failed on a fresh container event that lies before global_time: the
\* event is gone from the queue and its ball, which moves, has none
C36_WallEventLost ==
    /\ BetweenCalls
    /\ result = "SimulationFailure"
    /\ FiniteVels(balls)
    /\ \E b \in 1..Len(balls) : Moving(b) /\ ~HasWallEvent(b)

\* C37: every value collision_times sends is the simulation time elapsed since
\* the applied collision before it, and the first is the time elapsed since the
\* global_time at which collision_times was called (hist.entry_time is the
\* global_time at which the call of py_next_collision that has just returned
\* was made).
C37_ElapsedTimes ==
    [][(pc = "send" /\ frame.op = "collision_times") =>
          pipe'.sent = Append(pipe.sent, FSub(global_time, hist.entry_time))]_vars

\* collision_times was called at a global_time past 0 and has sent, as its
\* first value, the global_time after its first collision
C37_FirstValueFromZero ==
    /\ pc = "drop_tx"
    /\ frame.op = "collision_times"
    /\ Len(pipe.sent) = 1
    /\ FLt(Zero, pipe.at_call)
    /\ FLt(pipe.at_call, global_time)
    /\ pipe.sent[1] = global_time

\* the last k entries of s
LastOf(s, k) == SubSeq(s, Len(s) - k + 1, Len(s))

\* C38: pressure(n, window_width) with window_width >= 1 does not panic and
\* returns n entries, and after each recorded event pressure_sum is the sum of
\* the window_width most recent pressures and both deques hold window_width
\* entries.
C38_SlidingWindow ==
    /\ result # "panic"
    /\ (pc = "idle" /\ result = "Ok" /\ cur # <<>>) =>
           (Len(cur[1].times) = cur[1].n /\ Len(cur[1].pressures) = cur[1].n)
    /\ (pc = "map" /\ cur[1].times # <<>>) =>
           /\ FEq(cur[1].pressure_sum, FSum(LastOf(cur[1].seen, cur[1].window_width)))
           /\ Len(cur[1].pressure_deque) = cur[1].window_width
           /\ Len(cur[1].time_deque) = cur[1].window_width

\* pressure(n, 1) with n >= 1 has panicked on its first event
C38_PanicAtWidthOne ==
    /\ pc = "idle"
    /\ result = "panic"
    /\ cur[1].window_width = 1
    /\ cur[1].n >= 1
    /\ cur[1].times = <<>>
====
